---- MODULE Spec2Model ----
(***************************************************************************)
(* Model of the mail synchronisation core of accessible-email-client:      *)
(* the SQLite cache (database/db_manager.py), the repository               *)
(* (core/email_repository.py), the IMAP connection (core/imap_client.py),  *)
(* the poller (core/email_poller.py) and the email list's load token      *)
(* (ui/panels/email_list.py).                                              *)
(***************************************************************************)
EXTENDS Integers, Sequences, FiniteSets, TLC

VARIABLES
    \* ---- cache store (db_manager) ----
    folders,        \* rows of table folders: [id, account_id, name]
    emails,         \* rows of table emails
    nextFolderId,   \* next rowid of table folders
    \* ---- observation of the last repository call ----
    lastOp,         \* what was called, what the connection answered, what came back
    preEmails,      \* table emails before the last repository call
    preFolders,     \* table folders before the last repository call
    opCount,        \* repository calls made so far
    \* ---- one IMAPClient shared by two threads ----
    clientFolder,   \* folder really selected on the live session (NoFolder: none)
    selFolder,      \* IMAPClient._selected_folder
    selReadonly,    \* IMAPClient._selected_readonly
    lockHolder,     \* thread holding IMAPClient._lock (0: free)
    tpc,            \* per thread: position in fetch_threads / fetch_email_body
    tfolder,        \* per thread: the folder_name argument of the running call
    top,            \* per thread: the operation it runs
    lastCmd,        \* the command last issued on the session, and for whom
    \* ---- EmailListPanel load token ----
    loadToken,      \* EmailListPanel._load_token
    currentFolder,  \* EmailListPanel.current_folder
    threadsShown,   \* EmailListPanel.threads (what the list displays)
    workers,        \* per load token: the worker thread started for it
    pending,        \* wx.CallAfter queue: results posted, not yet delivered (FIFO)
    staleApplied,   \* a result whose token was not the current one changed the list
    \* ---- poller ----
    running,        \* EmailPoller.running
    last_uids,      \* EmailPoller.last_uids
    ppc,            \* position of the poller thread
    pidx,           \* index of the account the loop is at
    inbox,          \* per account: uids in INBOX on the server
    startInbox,     \* per account: uids in INBOX when the poller thread started
    notified,       \* notifications shown: [acc, uid, cycle]
    found,          \* [acc, uid] a poll cycle found as new
    stopCalled,     \* stop() has been called
    lateIter,       \* an iteration of the loop began after stop() was called
    cycle,          \* poll cycles begun
    cycleLog,       \* per account: how the current poll cycle treated it
    \* ---- threading engine, called on one folder state ----
    mailbox,        \* the messages the folder holds on the server
    tfetch,         \* the last IMAPClient.fetch_threads call and what it built
    twalk,          \* consecutive pages fetched after it, with one page size
    \* ---- smart-folder rules ----
    rules,          \* the rows of the rules table, in stored order
    ruleCall,       \* the last RuleManager.apply_rules call and its result
    \* ---- one IMAPClient's connection, used by several threads ----
    client,         \* IMAPClient.client: "none", "unauth" (created, not logged in), "auth"
    link,           \* the transport under client: "up", "down" after a transport error
    sessLock,       \* holder of IMAPClient._lock (0: free)
    spc,            \* per thread: position in the public operation it runs
    sop,            \* per thread: the operation
    sseen,          \* per thread: the operation began on a connection a transport
                    \* error had broken / the operation called _connect
    sres,           \* per thread: what the last operation returned
    \* ---- callers of DBManager.upsert_folder, statement by statement ----
    schemaUnique,   \* the folders table has UNIQUE(account_id, name)
    fcall,          \* per caller: the call it makes and its position in it
    fret,           \* per caller: what its last call returned
    \* ---- the emails table row by row ----
    etable,         \* rows of the emails table in rowid order
    ecall,          \* the last upsert_email call, how often it ran, and the
                    \* table its first run left
    \* ---- one caller using the connection's cached selection ----
    selLog,         \* the last operation on the connection and whether it
                    \* sent a SELECT
    \* ---- the offline view of a folder ----
    toffline,       \* the rows cached for the folder, who wrote them, and
                    \* the forest _fetch_threads_from_db builds of them
    \* ---- the list acting on the messages it shows ----
    shown           \* the folder whose messages the list shows

cacheVars == <<folders, emails, nextFolderId, lastOp, preEmails, preFolders, opCount>>
connVars == <<clientFolder, selFolder, selReadonly, lockHolder, tpc, tfolder, top, lastCmd>>
listVars == <<loadToken, currentFolder, threadsShown, workers, pending, staleApplied>>
pollVars == <<running, last_uids, ppc, pidx, inbox, startInbox, notified, found,
              stopCalled, lateIter, cycle, cycleLog>>
threadVars == <<mailbox, tfetch, twalk>>
ruleVars == <<rules, ruleCall>>
sessVars == <<client, link, sessLock, spc, sop, sseen, sres>>
folderVars == <<schemaUnique, fcall, fret>>
storeVars == <<etable, ecall>>
moreVars == <<toffline, shown>>
lateVars == <<selLog, moreVars>>
extVars == <<threadVars, ruleVars, sessVars, folderVars, storeVars, lateVars>>
vars == <<cacheVars, connVars, listVars, pollVars, extVars>>

(***************************************************************************)
(* Bounds of the model.                                                    *)
(***************************************************************************)
MaxUid == 2          \* uids of the cached folders range over 1..MaxUid
MaxOps == 3          \* repository calls per behaviour that change the cache
MaxLoads == 3        \* load_emails calls per behaviour of the email list
MaxInbox == 6        \* uids of an account's INBOX on the server range over 1..MaxInbox
MaxNew == 1          \* messages arriving in one INBOX per behaviour
MaxCycles == 2       \* poll cycles per behaviour
NumThreads == 2      \* threads sharing one IMAPClient
MaxMsgs == 4         \* messages in the folder the threading engine is called on

(***************************************************************************)
(* Values.                                                                 *)
(***************************************************************************)
NULL == "NULL"                      \* SQL NULL / Python None in a text column
NoFolderId == 0                     \* None as a folder id
FolderNames == {"INBOX", "Trash"}
Uids == 1..MaxUid
RepoAccount == 1                    \* EmailRepository.account_id
AccountIds == {1, 2}

\* str(flags) as stored in the flags column, and eval() reading it back.
\* Flags are kept in list order; the repr of a list is not the list.
PyStr(flagList) == [repr |-> flagList]
PyEval(text) == text.repr

\* json.dumps of a references list, "" as the poller writes it, NULL.
JsonDumps(refs) == [kind |-> "json", val |-> refs]
JsonLoads(col) == col.val
EmptyText == [kind |-> "empty", val |-> <<>>]
NullText == [kind |-> "null", val |-> <<>>]

SeqToSet(s) == {s[i] : i \in 1..Len(s)}

(***************************************************************************)
(* Cache store: database/db_manager.py.  Each operator takes the table(s)  *)
(* it reads and gives the table(s) it leaves: an operation of the          *)
(* repository chains several of them.  The column recipients is written    *)
(* as NULL by every caller and is left out.                                *)
(***************************************************************************)
Truthy(text) == text # NULL /\ text # ""

SameKey(r, account_id, folder_id, uid) ==
    r.account_id = account_id /\ r.folder_id = folder_id /\ r.uid = uid

\* SELECT id FROM folders WHERE account_id = ? AND name = ? (first row)
get_folder_id(F, account_id, name) ==
    LET hit == {f \in F : f.account_id = account_id /\ f.name = name}
    IN IF hit = {} THEN NoFolderId
       ELSE (CHOOSE f \in hit : \A g \in hit : f.id <= g.id).id

\* Select, return the id if a row is there, else insert and return lastrowid.
upsert_folder(F, nid, account_id, name) ==
    LET fid == get_folder_id(F, account_id, name)
    IN IF fid # NoFolderId
       THEN [folders |-> F, id |-> fid, next |-> nid]
       ELSE [folders |-> F \cup {[id |-> nid, account_id |-> account_id, name |-> name]},
             id |-> nid, next |-> nid + 1]

\* A store whose upsert always writes the body columns it is given.
upsert_email_OverwritesBody(E, account_id, folder_id, uid, subject, sender, date, flags, message_id, in_reply_to, references, body_text, body_html) ==
    LET old == {r \in E : SameKey(r, account_id, folder_id, uid)}
        fresh == [account_id |-> account_id, folder_id |-> folder_id, uid |-> uid,
                  subject |-> subject, sender |-> sender, date_received |-> date,
                  flags |-> PyStr(flags), message_id |-> message_id,
                  in_reply_to |-> in_reply_to, references_list |-> references,
                  body_text |-> body_text, body_html |-> body_html]
    IN IF folder_id # NoFolderId /\ old # {} THEN (E \ old) \cup {fresh}
       ELSE E \cup {fresh}

\* INSERT ... ON CONFLICT(account_id, folder_id, uid) DO UPDATE SET ...
\* Three statements: no body given, a body given, and the default one
\* (a body given but empty), which inserts the body and never updates it.
\* A NULL folder_id never conflicts (NULLs are distinct in a unique index).
upsert_email(E, account_id, folder_id, uid, subject, sender, date, flags, message_id, in_reply_to, references, body_text, body_html) ==
    LET old == {r \in E : SameKey(r, account_id, folder_id, uid)}
        conflict == folder_id # NoFolderId /\ old # {}
        withBody == ~(body_text = NULL /\ body_html = NULL)
                    /\ (Truthy(body_text) \/ Truthy(body_html))
        fresh == [account_id |-> account_id, folder_id |-> folder_id, uid |-> uid,
                  subject |-> subject, sender |-> sender, date_received |-> date,
                  flags |-> PyStr(flags), message_id |-> message_id,
                  in_reply_to |-> in_reply_to, references_list |-> references,
                  body_text |-> body_text, body_html |-> body_html]
        Updated(r) == IF withBody THEN fresh
                      ELSE [fresh EXCEPT !.body_text = r.body_text,
                                         !.body_html = r.body_html]
    IN IF conflict THEN (E \ old) \cup {Updated(r) : r \in old}
       ELSE E \cup {fresh}

\* SELECT flags FROM emails WHERE key; None when there is no row.
HasRow(E, account_id, folder_id, uid) ==
    \E r \in E : SameKey(r, account_id, folder_id, uid)

RowOf(E, account_id, folder_id, uid) ==
    CHOOSE r \in E : SameKey(r, account_id, folder_id, uid)

get_email_flags(E, account_id, folder_id, uid) ==
    RowOf(E, account_id, folder_id, uid).flags

\* UPDATE emails SET flags = str(flags) WHERE key
update_email_flags(E, account_id, folder_id, uid, flagList) ==
    {IF SameKey(r, account_id, folder_id, uid)
     THEN [r EXCEPT !.flags = PyStr(flagList)] ELSE r : r \in E}

\* UPDATE emails SET folder_id = ? WHERE account_id = ? AND uid IN (...)
\* as EmailRepository.move_emails issues it: every folder's row with one of
\* the uids is retargeted.  The statement aborts (and raises) when two rows
\* would share (account_id, folder_id, uid).
MoveRowsTarget(r, account_id, uids, target_id) ==
    IF r.account_id = account_id /\ r.uid \in uids THEN target_id ELSE r.folder_id

MoveRowsConflict(E, account_id, uids, target_id) ==
    \E r1, r2 \in E :
        /\ r1 # r2
        /\ r1.account_id = r2.account_id /\ r1.uid = r2.uid
        /\ MoveRowsTarget(r1, account_id, uids, target_id) # NoFolderId
        /\ MoveRowsTarget(r1, account_id, uids, target_id)
             = MoveRowsTarget(r2, account_id, uids, target_id)

MoveRows(E, account_id, uids, target_id) ==
    {[r EXCEPT !.folder_id = MoveRowsTarget(r, account_id, uids, target_id)] : r \in E}


(***************************************************************************)
(* Repository: core/email_repository.py.  The connection's answer to the   *)
(* remote call ("ok": True, "false": False, "raise": an exception) is an   *)
(* input of each operation.                                                *)
(***************************************************************************)
Remote == {"ok", "false", "raise"}

\* Argument lists of the mutation calls: uid lists in ascending order.
UidLists ==
    {s \in UNION {[1..n -> Uids] : n \in 1..MaxUid} :
        \A i \in 1..(Len(s) - 1) : s[i] < s[i + 1]}
FlagLists == {<<"Seen">>, <<"Deleted">>, <<"Seen", "Deleted">>}

Op(op, folder, uids, flagList, target, remote, result) ==
    [op |-> op, folder |-> folder, uids |-> uids, flags |-> flagList,
     target |-> target, remote |-> remote, result |-> result, forest |-> <<>>]

BoolResult(success) == IF success THEN "true" ELSE "false"

\* for f in flags: if f not in current_flags: current_flags.append(f)
RECURSIVE AppendMissing(_, _)
AppendMissing(current, flagList) ==
    IF flagList = <<>> THEN current
    ELSE AppendMissing(IF Head(flagList) \in SeqToSet(current) THEN current
                       ELSE Append(current, Head(flagList)),
                       Tail(flagList))

\* [f for f in current_flags if f not in flags]
RECURSIVE WithoutFlags(_, _)
WithoutFlags(current, flagList) ==
    IF current = <<>> THEN <<>>
    ELSE IF Head(current) \in SeqToSet(flagList)
         THEN WithoutFlags(Tail(current), flagList)
         ELSE <<Head(current)>> \o WithoutFlags(Tail(current), flagList)

\* for uid in uids: current = get_email_flags(...); ...; update_email_flags(...)
\* add = TRUE: the loop of add_flags; FALSE: the loop of remove_flags.
RECURSIVE FlagLoop(_, _, _, _, _)
FlagLoop(E, folder_id, uids, flagList, add) ==
    IF uids = <<>> THEN E
    ELSE LET uid == Head(uids)
             current_flags ==
                 IF HasRow(E, RepoAccount, folder_id, uid)
                 THEN PyEval(get_email_flags(E, RepoAccount, folder_id, uid))
                 ELSE <<>>
             new_flags == IF add THEN AppendMissing(current_flags, flagList)
                          ELSE WithoutFlags(current_flags, flagList)
         IN FlagLoop(update_email_flags(E, RepoAccount, folder_id, uid, new_flags),
                     folder_id, Tail(uids), flagList, add)

\* A move that mirrors into the cache without looking at the remote result.
RepoMoveEmails_Unconfirmed(uids, target_folder, remote) ==
    LET uf == upsert_folder(folders, nextFolderId, RepoAccount, target_folder)
        raised == MoveRowsConflict(emails, RepoAccount, SeqToSet(uids), uf.id)
    IN /\ preEmails' = emails
       /\ preFolders' = folders
       /\ folders' = uf.folders
       /\ nextFolderId' = uf.next
       /\ emails' = IF raised THEN emails
                    ELSE MoveRows(emails, RepoAccount, SeqToSet(uids), uf.id)
       /\ lastOp' = Op("move", NULL, uids, <<>>, target_folder, remote,
                       IF raised THEN "raised" ELSE BoolResult(remote = "ok"))

\* EmailRepository.move_emails
RepoMoveEmails(uids, target_folder, remote) ==
    LET success == (remote = "ok")
        uf == upsert_folder(folders, nextFolderId, RepoAccount, target_folder)
        raised == MoveRowsConflict(emails, RepoAccount, SeqToSet(uids), uf.id)
    IN /\ preEmails' = emails
       /\ preFolders' = folders
       /\ IF success
          THEN /\ folders' = uf.folders
               /\ nextFolderId' = uf.next
               /\ emails' = IF raised THEN emails
                            ELSE MoveRows(emails, RepoAccount, SeqToSet(uids), uf.id)
               /\ lastOp' = Op("move", NULL, uids, <<>>, target_folder, remote,
                               IF raised THEN "raised" ELSE "true")
          ELSE /\ UNCHANGED <<folders, nextFolderId, emails>>
               /\ lastOp' = Op("move", NULL, uids, <<>>, target_folder, remote, "false")

\* EmailRepository.copy_emails
RepoCopyEmails(uids, target_folder, remote) ==
    /\ preEmails' = emails
    /\ preFolders' = folders
    /\ UNCHANGED <<folders, nextFolderId, emails>>
    /\ lastOp' = Op("copy", NULL, uids, <<>>, target_folder, remote,
                    BoolResult(remote = "ok"))

\* EmailRepository.add_flags (add = TRUE) and remove_flags (add = FALSE);
\* folder_name is NULL when the caller passes none.
RepoFlags(add, uids, flagList, folder_name, remote) ==
    LET success == (remote = "ok")
        folder_id == get_folder_id(folders, RepoAccount, folder_name)
    IN /\ preEmails' = emails
       /\ preFolders' = folders
       /\ UNCHANGED <<folders, nextFolderId>>
       /\ emails' = IF success /\ folder_name # NULL /\ folder_id # NoFolderId
                    THEN FlagLoop(emails, folder_id, uids, flagList, add)
                    ELSE emails
       /\ lastOp' = Op(IF add THEN "add_flags" ELSE "remove_flags", folder_name,
                       uids, flagList, NULL, remote, BoolResult(success))

RepoAddFlags(uids, flagList, folder_name, remote) ==
    RepoFlags(TRUE, uids, flagList, folder_name, remote)

RepoRemoveFlags(uids, flagList, folder_name, remote) ==
    RepoFlags(FALSE, uids, flagList, folder_name, remote)

(***************************************************************************)
(* The server's messages.  A folder of the server holds, at each fetch,    *)
(* some subset of them (uid-keyed); the FETCH response lists them in       *)
(* ascending uid order.  Subjects are sequences of characters.  Dates are  *)
(* clock ticks.                                                            *)
(***************************************************************************)
MsgIdOf == <<"a", "b", "c", "d", "e", "f", "g", "h">>

SubjHello == <<"H", "e", "l", "l", "o">>
SubjReHello == <<"R", "e", ":", " ">> \o SubjHello
SubjREhello == <<"R", "E", ":", " ", "h", "e", "l", "l", "o">>
SubjFwdHello == <<"F", "w", "d", ":", " ">> \o SubjHello
SubjHi == <<"R", "e", ":", " ", "H", "i">>

ServerMsg(u) ==
    [uid |-> u,
     msg_id |-> MsgIdOf[u],
     in_reply_to |-> CASE u = 2 -> "a" [] u = 3 -> "b" [] OTHER -> "",
     references |-> CASE u = 2 -> <<"a">> [] u = 3 -> <<"a", "b">> [] OTHER -> <<>>,
     subject |-> CASE u = 1 -> SubjHello [] u = 2 -> SubjReHello
                   [] u = 3 -> SubjREhello [] u = 4 -> SubjFwdHello [] OTHER -> SubjHi,
     sender |-> IF u % 2 = 1 THEN "ann" ELSE "bob",
     date |-> u,
     flags |-> IF u = 2 THEN <<"Seen">> ELSE <<>>,
     gm_thrid |-> IF u = 3 THEN 0 ELSE 7]

(***************************************************************************)
(* Thread nodes: the dicts IMAPClient hands out.  A key the dict does not  *)
(* hold is Absent (AbsentList for a list): dict.get then gives None, or    *)
(* the default.                                                            *)
(***************************************************************************)
Absent == "ABSENT"
AbsentList == [present |-> FALSE, val |-> <<>>]
PresentList(l) == [present |-> TRUE, val |-> l]
DictGet(v) == IF v = Absent THEN NULL ELSE v
DictGetList(v, default) == IF v.present THEN v.val ELSE default

\* email_map[uid] of _fetch_threads_fallback
FallbackNode(m, children) ==
    [uid |-> m.uid, subject |-> m.subject, sender |-> m.sender, date |-> m.date,
     flags |-> m.flags, children |-> children,
     u_msg_id |-> m.msg_id, u_in_reply_to |-> m.in_reply_to,
     u_references |-> PresentList(m.references),
     message_id |-> Absent, in_reply_to |-> Absent]

\* email_map[uid] of fetch_threads (THREAD answered): the envelope has no
\* References, and the keys carry no underscore.
EnvelopeNode(m, children) ==
    [uid |-> m.uid, subject |-> m.subject, sender |-> m.sender, date |-> m.date,
     flags |-> m.flags, children |-> children,
     u_msg_id |-> Absent, u_in_reply_to |-> Absent, u_references |-> AbsentList,
     message_id |-> m.msg_id, in_reply_to |-> m.in_reply_to]

\* obj.pop("_msg_id", None); obj.pop("_in_reply_to", None); obj.pop("_references", None)
\* on every object of email_map, hence on the nodes at every depth.
RECURSIVE PopInternal(_)
PopInternal(node) ==
    [node EXCEPT !.u_msg_id = Absent, !.u_in_reply_to = Absent,
                 !.u_references = AbsentList,
                 !.children = [i \in 1..Len(node.children) |->
                                  PopInternal(node.children[i])]]

(***************************************************************************)
(* Threading engine: core/imap_client.py.                                  *)
(***************************************************************************)
LowerOf(c) ==
    CASE c = "A" -> "a" [] c = "B" -> "b" [] c = "C" -> "c" [] c = "D" -> "d"
      [] c = "E" -> "e" [] c = "F" -> "f" [] c = "G" -> "g" [] c = "H" -> "h"
      [] c = "I" -> "i" [] c = "J" -> "j" [] c = "K" -> "k" [] c = "L" -> "l"
      [] c = "M" -> "m" [] c = "N" -> "n" [] c = "O" -> "o" [] c = "P" -> "p"
      [] c = "Q" -> "q" [] c = "R" -> "r" [] c = "S" -> "s" [] c = "T" -> "t"
      [] c = "U" -> "u" [] c = "V" -> "v" [] c = "W" -> "w" [] c = "X" -> "x"
      [] c = "Y" -> "y" [] c = "Z" -> "z"
      [] OTHER -> c

RECURSIVE SkipSpaces(_, _)
\* first position from i on that holds no whitespace (Len(s) + 1 if none)
SkipSpaces(s, i) ==
    IF i <= Len(s) /\ s[i] = " " THEN SkipSpaces(s, i + 1) ELSE i

RECURSIVE LastNonSpace(_, _)
LastNonSpace(s, i) ==
    IF i >= 1 /\ s[i] = " " THEN LastNonSpace(s, i - 1) ELSE i

\* str.strip()
Strip(s) == SubSeq(s, SkipSpaces(s, 1), LastNonSpace(s, Len(s)))

HasWordAt(s, i, w) ==
    /\ i + Len(w) - 1 <= Len(s)
    /\ \A k \in 1..Len(w) : LowerOf(s[i + k - 1]) = w[k]

\* re.compile(r'^\s*(re|fwd|fw)\s*:\s*', re.IGNORECASE).match(s):
\* the position after the match, 0 when there is none.
PrefixEnd(s) ==
    LET i == SkipSpaces(s, 1)
        Try(w) == LET j == SkipSpaces(s, i + Len(w))
                  IN IF HasWordAt(s, i, w) /\ j <= Len(s) /\ s[j] = ":"
                     THEN SkipSpaces(s, j + 1) ELSE 0
    IN IF Try(<<"r", "e">>) # 0 THEN Try(<<"r", "e">>)
       ELSE IF Try(<<"f", "w", "d">>) # 0 THEN Try(<<"f", "w", "d">>)
       ELSE Try(<<"f", "w">>)

RECURSIVE StripPrefixes(_)
\* while pattern.match(s): s = pattern.sub('', s, count=1).strip()
StripPrefixes(s) ==
    IF PrefixEnd(s) = 0 THEN s
    ELSE StripPrefixes(Strip(SubSeq(s, PrefixEnd(s), Len(s))))

\* IMAPClient._normalize_subject
normalize_subject(subject) ==
    IF subject = <<>> THEN <<>>
    ELSE LET s == StripPrefixes(Strip(subject))
         IN [i \in 1..Len(s) |-> LowerOf(s[i])]

MinSubjectLen == 3   \* len(norm_subj) > 3

Groupable(node) ==
    LET n == normalize_subject(node.subject) IN n # <<>> /\ Len(n) > MinSubjectLen

RECURSIVE SelectNodes(_, _)
\* the nodes of a list whose normalized subject is norm, in list order
SelectNodes(nodes, norm) ==
    IF nodes = <<>> THEN <<>>
    ELSE (IF Groupable(Head(nodes)) /\ normalize_subject(Head(nodes).subject) = norm
          THEN <<Head(nodes)>> ELSE <<>>) \o SelectNodes(Tail(nodes), norm)

RECURSIVE GroupKeys(_, _)
\* keys of subject_groups in insertion order
GroupKeys(nodes, seen) ==
    IF nodes = <<>> THEN <<>>
    ELSE LET n == normalize_subject(Head(nodes).subject)
         IN IF Groupable(Head(nodes)) /\ n \notin seen
            THEN <<n>> \o GroupKeys(Tail(nodes), seen \cup {n})
            ELSE GroupKeys(Tail(nodes), seen)

RECURSIVE UngroupedNodes(_)
UngroupedNodes(nodes) ==
    IF nodes = <<>> THEN <<>>
    ELSE (IF Groupable(Head(nodes)) THEN <<>> ELSE <<Head(nodes)>>)
         \o UngroupedNodes(Tail(nodes))

RECURSIVE InsertAscending(_, _)
\* list.sort(key=date): stable, ascending
InsertAscending(sorted, node) ==
    IF sorted = <<>> THEN <<node>>
    ELSE IF Head(sorted).date <= node.date
         THEN <<Head(sorted)>> \o InsertAscending(Tail(sorted), node)
         ELSE <<node>> \o sorted

RECURSIVE SortByDate(_)
SortByDate(nodes) ==
    IF nodes = <<>> THEN <<>>
    ELSE InsertAscending(SortByDate(SubSeq(nodes, 1, Len(nodes) - 1)),
                         nodes[Len(nodes)])

\* A merge that appends the siblings with their children left below them.
AdoptSiblings_Nested(siblings) == siblings

RECURSIVE AdoptSiblings(_)
\* for sibling in group[1:]: extend with the sibling's children, empty the
\* sibling's children, append the sibling
AdoptSiblings(siblings) ==
    IF siblings = <<>> THEN <<>>
    ELSE Head(siblings).children \o <<[Head(siblings) EXCEPT !.children = <<>>]>>
         \o AdoptSiblings(Tail(siblings))

MergeGroup(group) ==
    IF Len(group) = 1 THEN group[1]
    ELSE LET sorted == SortByDate(group)
             thread_root == sorted[1]
         IN [thread_root EXCEPT !.children = thread_root.children
                                             \o AdoptSiblings(Tail(sorted))]

MaxOf(S) == CHOOSE x \in S : \A y \in S : y <= x

\* thread_newest_date: the root's date and its direct children's dates
thread_newest_date(root) ==
    MaxOf({root.date} \cup {root.children[i].date : i \in 1..Len(root.children)})

RECURSIVE InsertNewestFirst(_, _)
\* list.sort(key=thread_newest_date, reverse=True): stable, descending
InsertNewestFirst(sorted, node) ==
    IF sorted = <<>> THEN <<node>>
    ELSE IF thread_newest_date(Head(sorted)) >= thread_newest_date(node)
         THEN <<Head(sorted)>> \o InsertNewestFirst(Tail(sorted), node)
         ELSE <<node>> \o sorted

RECURSIVE SortNewestFirst(_)
SortNewestFirst(nodes) ==
    IF nodes = <<>> THEN <<>>
    ELSE InsertNewestFirst(SortNewestFirst(SubSeq(nodes, 1, Len(nodes) - 1)),
                           nodes[Len(nodes)])

\* IMAPClient._merge_by_subject
merge_by_subject(roots) ==
    LET keys == GroupKeys(roots, {})
        merged == [i \in 1..Len(keys) |-> MergeGroup(SelectNodes(roots, keys[i]))]
    IN SortNewestFirst(UngroupedNodes(roots) \o merged)

\* result[offset:offset+limit]
Slice(list, limit, offset) ==
    IF offset >= Len(list) THEN <<>>
    ELSE SubSeq(list, offset + 1, IF offset + limit <= Len(list)
                                  THEN offset + limit ELSE Len(list))

\* The uids of a set of messages in ascending order (the order of response.items()).
RECURSIVE AscendingUids(_)
AscendingUids(U) ==
    IF U = {} THEN <<>>
    ELSE LET lo == CHOOSE x \in U : \A y \in U : x <= y
         IN <<lo>> \o AscendingUids(U \ {lo})

RECURSIVE DescendingUids(_)
\* messages.sort(reverse=True)
DescendingUids(U) ==
    IF U = {} THEN <<>>
    ELSE <<MaxOf(U)>> \o DescendingUids(U \ {MaxOf(U)})

MsgOf(msgs, u) == CHOOSE m \in msgs : m.uid = u
UidsOf(msgs) == {m.uid : m \in msgs}

\* msgid_to_uid.get(msg_id): the last message written under that id; 0 for None
MsgidToUid(msgs, msg_id) ==
    LET hit == {m.uid : m \in {x \in msgs : x.msg_id # "" /\ x.msg_id = msg_id}}
    IN IF hit = {} THEN 0 ELSE MaxOf(hit)

RECURSIVE FirstKnownRef_FromStart(_, _, _)
\* A scan of References from its first entry on.
FirstKnownRef_FromStart(msgs, m, i) ==
    LET known == {k \in 1..Len(m.references) :
                     /\ MsgidToUid(msgs, m.references[k]) # 0
                     /\ MsgidToUid(msgs, m.references[k]) # m.uid}
    IN IF known = {} THEN "" ELSE m.references[CHOOSE k \in known : \A j \in known : k <= j]

RECURSIVE FirstKnownRef(_, _, _)
\* for ref in reversed(references): first ref that is indexed and is not uid's own
FirstKnownRef(msgs, m, i) ==
    IF i = 0 THEN ""
    ELSE IF MsgidToUid(msgs, m.references[i]) # 0
            /\ MsgidToUid(msgs, m.references[i]) # m.uid
         THEN m.references[i]
         ELSE FirstKnownRef(msgs, m, i - 1)

\* Tier 2: the uid of the message m is attached to, 0 when m is a root
ParentUid(msgs, m) ==
    LET byRef == FirstKnownRef(msgs, m, Len(m.references))
        parent_msgid == IF byRef = "" /\ m.in_reply_to # "" THEN m.in_reply_to ELSE byRef
        parent_uid == MsgidToUid(msgs, parent_msgid)
    IN IF parent_uid # 0 /\ parent_uid \in UidsOf(msgs) /\ parent_uid # m.uid
       THEN parent_uid ELSE 0

RECURSIVE LinkedNode(_, _)
\* the object of email_map once every message has been appended to its parent
LinkedNode(msgs, u) ==
    LET kids == AscendingUids({m.uid : m \in {x \in msgs : ParentUid(msgs, x) = u}})
    IN FallbackNode(MsgOf(msgs, u), [i \in 1..Len(kids) |-> LinkedNode(msgs, kids[i])])

\* Tier 2: the list roots once every message has been linked
Tier2Roots(msgs) ==
    LET rootUids == AscendingUids({m.uid : m \in {x \in msgs : ParentUid(msgs, x) = 0}})
    IN [i \in 1..Len(rootUids) |-> LinkedNode(msgs, rootUids[i])]

\* A fallback that pages over the linked roots before it merges them.
Tier2Threads_SliceFirst(msgs, limit, offset) ==
    LET final_roots == merge_by_subject(Slice(Tier2Roots(msgs), limit, offset))
    IN [i \in 1..Len(final_roots) |-> PopInternal(final_roots[i])]

\* Tier 2 and Tier 3 of _fetch_threads_fallback, internal keys removed, sliced
Tier2Threads(msgs, limit, offset) ==
    LET final_roots == merge_by_subject(Tier2Roots(msgs))
        cleaned == [i \in 1..Len(final_roots) |-> PopInternal(final_roots[i])]
    IN Slice(cleaned, limit, offset)

\* X-GM-THRID of a message, as Gmail reports it (0: none)
GmThrid(m) == m.gm_thrid

RECURSIVE ThridKeys(_, _, _)
\* keys of thrid_groups in insertion order
ThridKeys(msgs, uids, seen) ==
    IF uids = <<>> THEN <<>>
    ELSE LET t == GmThrid(MsgOf(msgs, Head(uids)))
         IN IF t # 0 /\ t \notin seen
            THEN <<t>> \o ThridKeys(msgs, Tail(uids), seen \cup {t})
            ELSE ThridKeys(msgs, Tail(uids), seen)

\* Tier 1: one root per thread id, the oldest, the others its direct children
ThridRoot(msgs, t) ==
    LET uids == AscendingUids({m.uid : m \in {x \in msgs : GmThrid(x) = t}})
        sorted == SortByDate([i \in 1..Len(uids) |-> FallbackNode(MsgOf(msgs, uids[i]), <<>>)])
    IN [sorted[1] EXCEPT !.children = Tail(sorted)]

\* Tier 1: the list roots, sorted, internal keys removed
Tier1Roots(msgs) ==
    LET all == AscendingUids(UidsOf(msgs))
        keys == ThridKeys(msgs, all, {})
        grouped == [i \in 1..Len(keys) |-> ThridRoot(msgs, keys[i])]
        loose == AscendingUids({m.uid : m \in {x \in msgs : GmThrid(x) = 0}})
        alone == [i \in 1..Len(loose) |-> FallbackNode(MsgOf(msgs, loose[i]), <<>>)]
        roots == SortNewestFirst(grouped \o alone)
    IN [i \in 1..Len(roots) |-> PopInternal(roots[i])]

Tier1Threads(msgs, limit, offset) ==
    Slice(merge_by_subject(Tier1Roots(msgs)), limit, offset)

\* IMAPClient._fetch_threads_fallback, search and fetch having answered
fetch_threads_fallback(msgs, gmail, limit, offset) ==
    IF msgs = {} THEN <<>>
    ELSE IF gmail THEN Tier1Threads(msgs, limit, offset)
    ELSE Tier2Threads(msgs, limit, offset)

\* IMAPClient.fetch_emails: a flat page of the newest uids, no children key
\* (read as an empty children list by every consumer)
fetch_emails(msgs, limit, offset) ==
    LET batch == Slice(DescendingUids(UidsOf(msgs)), limit, offset)
        page == AscendingUids(SeqToSet(batch))
    IN [i \in 1..Len(page) |-> EnvelopeNode(MsgOf(msgs, page[i]), <<>>)]

(***************************************************************************)
(* Tier 0.  The answer of THREAD REFERENCES is a list of threads; a thread *)
(* is a tuple whose items are uids or nested tuples.                       *)
(***************************************************************************)
UidItem(u) == [k |-> "uid", uid |-> u, sub |-> <<>>]
ListItem(items) == [k |-> "list", uid |-> 0, sub |-> items]

\* Answers a server may give for a folder: every message its own thread
\* ((1),(2),(3)); one chain ((1 2 3)); one root with sub-threads ((1 (2)(3)));
\* a thread with no root of its own (((1)(2)(3))).
ThreadAnswers(msgs) ==
    LET us == AscendingUids(UidsOf(msgs))
        single == [i \in 1..Len(us) |-> ListItem(<<UidItem(us[i])>>)]
    IN IF us = <<>> THEN {<<>>}
       ELSE {single,
             <<ListItem([i \in 1..Len(us) |-> UidItem(us[i])])>>,
             <<ListItem(<<UidItem(us[1])>> \o Tail(single))>>,
             <<ListItem(single)>>}

RECURSIVE build_thread_list(_, _)
RECURSIVE AttachItems(_, _)

\* what the rest of a tuple appends below current_parent: sub-threads become
\* its children; the next uid becomes its child and the new current_parent
AttachItems(msgs, items) ==
    IF items = <<>> THEN <<>>
    ELSE LET item == Head(items)
         IN IF item.k = "uid"
            THEN IF item.uid \in UidsOf(msgs)
                 THEN <<EnvelopeNode(MsgOf(msgs, item.uid), AttachItems(msgs, Tail(items)))>>
                 ELSE AttachItems(msgs, Tail(items))
            ELSE build_thread_list(msgs, item.sub) \o AttachItems(msgs, Tail(items))

\* build_thread_node on a tuple, root_obj still None: <<>> for None, else <<root_obj>>
build_thread_list(msgs, items) ==
    IF items = <<>> THEN <<>>
    ELSE LET item == Head(items)
         IN IF item.k = "uid"
            THEN IF item.uid \in UidsOf(msgs)
                 THEN <<EnvelopeNode(MsgOf(msgs, item.uid), AttachItems(msgs, Tail(items)))>>
                 ELSE build_thread_list(msgs, Tail(items))
            ELSE LET child_obj == build_thread_list(msgs, item.sub)
                 IN IF child_obj # <<>>
                    THEN <<[child_obj[1] EXCEPT !.children =
                               child_obj[1].children \o AttachItems(msgs, Tail(items))]>>
                    ELSE build_thread_list(msgs, Tail(items))

RECURSIVE BuildThreads(_, _)
\* for thread_node in threads_list: thread_obj = build_thread_node(thread_node) ...
BuildThreads(msgs, threads) ==
    IF threads = <<>> THEN <<>>
    ELSE build_thread_list(msgs, Head(threads).sub) \o BuildThreads(msgs, Tail(threads))

\* IMAPClient.fetch_threads, THREAD having answered
Tier0Threads(msgs, threads, limit, offset) ==
    IF threads = <<>> THEN <<>>
    ELSE Slice(merge_by_subject(BuildThreads(msgs, threads)), limit, offset)

\* How the session answers one fetch_threads call.
Live == {"no_client", "thread", "fallback", "fallback_flat", "error"}

\* IMAPClient.fetch_threads: what the call returns
imap_fetch_threads(live, msgs, threads, gmail, limit, offset) ==
    CASE live = "thread" -> Tier0Threads(msgs, threads, limit, offset)
      [] live = "fallback" -> fetch_threads_fallback(msgs, gmail, limit, offset)
      [] live = "fallback_flat" -> fetch_emails(msgs, limit, offset)
      [] OTHER -> <<>>

(***************************************************************************)
(* Repository: the read paths and their write-through caching.             *)
(***************************************************************************)
\* A datetime as sqlite3 stores it (ISO text), a Date header as it stands.
IsoDate(t) == [fmt |-> "iso", t |-> t]
HeaderDate(t) == [fmt |-> "rfc2822", t |-> t]

\* The From header of a message as it stands in the raw message.
HeaderFrom(sender) == IF sender = "ann" THEN "Ann <ann>" ELSE "Bob <bob>"

RECURSIVE save_email_node(_, _, _)
RECURSIVE SaveNodes(_, _, _)

\* EmailRepository._save_email_node
save_email_node(E, folder_id, email_obj) ==
    SaveNodes(upsert_email(E, RepoAccount, folder_id, email_obj.uid,
                           email_obj.subject, email_obj.sender,
                           IsoDate(email_obj.date), email_obj.flags,
                           DictGet(email_obj.u_msg_id),
                           DictGet(email_obj.u_in_reply_to),
                           JsonDumps(DictGetList(email_obj.u_references, <<>>)),
                           NULL, NULL),
              folder_id, email_obj.children)

\* EmailRepository._cache_threads, and the loop over a node's children
SaveNodes(E, folder_id, nodes) ==
    IF nodes = <<>> THEN E
    ELSE SaveNodes(save_email_node(E, folder_id, Head(nodes)), folder_id, Tail(nodes))

cache_threads(E, folder_id, threads) == SaveNodes(E, folder_id, threads)

\* The text order of the column date_received: an ISO text starts with a
\* digit, a Date header with the letter of its weekday, so every header date
\* sorts above every ISO date; dates of one format are ordered by t.
RowBefore(r, s) ==
    LET rk(d) == IF d.fmt = "iso" THEN 0 ELSE 1
    IN \/ rk(r.date_received) > rk(s.date_received)
       \/ /\ rk(r.date_received) = rk(s.date_received)
          /\ \/ r.date_received.t > s.date_received.t
             \/ r.date_received.t = s.date_received.t /\ r.uid > s.uid

RECURSIVE OrderRows(_)
\* ORDER BY date_received DESC, uid DESC
OrderRows(R) ==
    IF R = {} THEN <<>>
    ELSE LET first == CHOOSE r \in R : \A s \in R \ {r} : RowBefore(r, s)
         IN <<first>> \o OrderRows(R \ {first})

\* DBManager.get_emails: SELECT * FROM emails WHERE account_id = ? AND
\* folder_id = ? ORDER BY ... LIMIT ? OFFSET ?  (no row equals a NULL folder)
get_emails(E, account_id, folder_id, limit, offset) ==
    IF folder_id = NoFolderId THEN <<>>
    ELSE Slice(OrderRows({r \in E : r.account_id = account_id /\ r.folder_id = folder_id}),
               limit, offset)

\* email_map[uid] of _fetch_threads_from_db: the date is the column's text,
\* the internal keys stay on the node
RowNode(row, children) ==
    [uid |-> row.uid, subject |-> row.subject, sender |-> row.sender,
     date |-> row.date_received, flags |-> PyEval(row.flags), children |-> children,
     u_msg_id |-> row.message_id, u_in_reply_to |-> row.in_reply_to,
     u_references |-> PresentList(IF row.references_list.kind = "json"
                                  THEN JsonLoads(row.references_list) ELSE <<>>),
     message_id |-> Absent, in_reply_to |-> Absent]

\* msgid_to_uid.get(msg_id) over the rows of the page: the last row written
\* under that id; 0 for None
RowMsgidToUid(rows, msg_id) ==
    LET hits == {i \in 1..Len(rows) : Truthy(rows[i].message_id)
                                      /\ rows[i].message_id = msg_id}
    IN IF hits = {} THEN 0 ELSE rows[MaxOf(hits)].uid

\* the uid of the row a row is appended to, 0 when it goes to roots: the last
\* entry of its references, else its in_reply_to
RowParentUid(rows, row) ==
    LET refs == RowNode(row, <<>>).u_references.val
        parent_msgid == IF refs # <<>> THEN refs[Len(refs)]
                        ELSE IF Truthy(row.in_reply_to) THEN row.in_reply_to ELSE ""
        parent_uid == RowMsgidToUid(rows, parent_msgid)
    IN IF parent_uid # 0 /\ parent_uid # row.uid THEN parent_uid ELSE 0

RECURSIVE RowLinked(_, _)
\* the object of email_map once every row has been appended to its parent
RowLinked(rows, i) ==
    LET kids == SelectSeq([k \in 1..Len(rows) |-> k],
                          LAMBDA k : RowParentUid(rows, rows[k]) = rows[i].uid)
    IN RowNode(rows[i], [n \in 1..Len(kids) |-> RowLinked(rows, kids[n])])

\* EmailRepository._fetch_threads_from_db
fetch_threads_from_db(E, folder_id, limit, offset) ==
    LET rows == get_emails(E, RepoAccount, folder_id, limit, offset)
        roots == SelectSeq([k \in 1..Len(rows) |-> k],
                           LAMBDA k : RowParentUid(rows, rows[k]) = 0)
    IN [n \in 1..Len(roots) |-> RowLinked(rows, roots[n])]

Pages == {<<100, 0>>, <<1, 0>>, <<1, 1>>}     \* (limit, offset)

\* EmailRepository.fetch_threads, lines 27-42, threads being what
\* self.imap_client.fetch_threads returned; the forest of the record is what
\* the call returns: threads, or for an empty threads the page rebuilt from
\* the cached rows
CacheFetchedThreads(folder_name, live, threads, limit, offset) ==
    LET uf == upsert_folder(folders, nextFolderId, RepoAccount, folder_name)
    IN /\ preEmails' = emails
       /\ preFolders' = folders
       /\ folders' = uf.folders
       /\ nextFolderId' = uf.next
       /\ emails' = IF threads # <<>> THEN cache_threads(emails, uf.id, threads)
                    ELSE emails
       /\ lastOp' = [Op("fetch_threads", folder_name, <<>>, <<>>, NULL, live,
                        IF threads # <<>> THEN "live" ELSE "offline")
                     EXCEPT !.forest = IF threads # <<>> THEN threads
                                       ELSE fetch_threads_from_db(emails, uf.id,
                                                                  limit, offset)]

\* EmailRepository.fetch_threads
RepoFetchThreads(folder_name, live, msgs, answer, gmail, page) ==
    CacheFetchedThreads(folder_name, live,
                        imap_fetch_threads(live, msgs, answer, gmail, page[1], page[2]),
                        page[1], page[2])

\* What the message body holds: (text, html) of a plain message, an html
\* message, a message with an empty body.
Bodies == {<<"text", "">>, <<"", "html">>, <<"", "">>}

\* EmailRepository.fetch_email_body; live: the connection returned the
\* message (else it returned {} or raised)
RepoFetchEmailBody(folder_name, uid, live, body) ==
    LET folder_id == get_folder_id(folders, RepoAccount, folder_name)
        m == ServerMsg(uid)
    IN /\ preEmails' = emails
       /\ preFolders' = folders
       /\ UNCHANGED <<folders, nextFolderId>>
       /\ emails' = IF live
                    THEN upsert_email(emails, RepoAccount, folder_id, uid,
                                      m.subject, HeaderFrom(m.sender), HeaderDate(m.date),
                                      <<>>, m.msg_id, NULL, NullText, body[1], body[2])
                    ELSE emails
       /\ lastOp' = Op("fetch_email_body", folder_name, <<uid>>, <<>>, NULL,
                       IF live THEN "ok" ELSE "false",
                       IF live THEN "live"
                       ELSE IF folder_id # NoFolderId
                               /\ HasRow(emails, RepoAccount, folder_id, uid)
                            THEN "cached" ELSE "empty")

\* EmailPoller._poll_accounts, lines 109-127: cache one new message of INBOX
poller_cache_message(F, nid, E, account_id, m) ==
    LET known == get_folder_id(F, account_id, "INBOX")
        uf == IF known # NoFolderId THEN [folders |-> F, id |-> known, next |-> nid]
              ELSE upsert_folder(F, nid, account_id, "INBOX")
    IN [folders |-> uf.folders, next |-> uf.next,
        emails |-> upsert_email(E, account_id, uf.id, m.uid, m.subject, m.sender,
                                IsoDate(m.date), m.flags, m.msg_id, m.in_reply_to,
                                EmptyText, NULL, NULL)]

\* the same for the message the server holds under uid
poller_cache(F, nid, E, account_id, uid) ==
    poller_cache_message(F, nid, E, account_id, ServerMsg(uid))

\* The poller thread caching a new message while the repository is in use.
PollerCaches(account_id, uid) ==
    LET pc == poller_cache(folders, nextFolderId, emails, account_id, uid)
    IN /\ preEmails' = emails
       /\ preFolders' = folders
       /\ folders' = pc.folders
       /\ nextFolderId' = pc.next
       /\ emails' = pc.emails
       /\ lastOp' = Op("poll_cache", "INBOX", <<uid>>, <<>>, NULL, "ok", "true")

(***************************************************************************)
(* Initial states of the parts, and the specification of the repository    *)
(* over the cache: any sequence of repository calls and poller cache       *)
(* writes, each with any answer of the connection.  A behaviour makes at   *)
(* most MaxOps calls that change a table; a call that changes none is the  *)
(* last of its behaviour (the tables it leaves are those of the state it   *)
(* was made in, and every other call is explored from that state).         *)
(***************************************************************************)
NoFolder == "NONE"
Threads == 1..NumThreads

CacheInit ==
    /\ folders = {}
    /\ emails = {}
    /\ nextFolderId = 1
    /\ lastOp = Op("none", NULL, <<>>, <<>>, NULL, "ok", "none")
    /\ preEmails = {}
    /\ preFolders = {}
    /\ opCount = 0

NoCmd == [cmd |-> "none", forFolder |-> NoFolder, onFolder |-> NoFolder, thread |-> 0,
          locked |-> 0, answered |-> FALSE]

ConnInit ==
    /\ clientFolder = NoFolder
    /\ selFolder = NoFolder
    /\ selReadonly = "none"
    /\ lockHolder = 0
    /\ tpc = [t \in Threads |-> "idle"]
    /\ tfolder = [t \in Threads |-> NoFolder]
    /\ top = [t \in Threads |-> "none"]
    /\ lastCmd = NoCmd

\* What the list displays: which call produced it ("cache": get_cached_threads,
\* "live" / "offline": the worker's fetch_threads), for which load, of which folder.
ThreadList(src, token, folder) == [src |-> src, token |-> token, folder |-> folder]
NoThreads == ThreadList("none", 0, NoFolder)

ListInit ==
    /\ loadToken = 0
    /\ currentFolder = NoFolder
    /\ threadsShown = NoThreads
    /\ workers = <<>>
    /\ pending = <<>>
    /\ staleApplied = FALSE

\* EmailPoller.last_uids[email]: an entry of the dict, or no entry
Mark(uid) == [set |-> TRUE, uid |-> uid]
NoMark == [set |-> FALSE, uid |-> 0]

\* How a poll cycle treated an account: the watermark at the cycle's start,
\* when the loop reached the account, and when it left it.
CycleEntry(outcome, start, seen, mark) ==
    [outcome |-> outcome, start |-> start, seen |-> seen, mark |-> mark]

\* EmailPoller.__init__; the INBOXes hold uids 1..n
PollInitWith(sizes) ==
    /\ running = FALSE
    /\ last_uids = [a \in AccountIds |-> NoMark]
    /\ ppc = "created"
    /\ pidx = 1
    /\ inbox = sizes
    /\ startInbox = sizes
    /\ notified = {}
    /\ found = {}
    /\ stopCalled = FALSE
    /\ lateIter = FALSE
    /\ cycle = 0
    /\ cycleLog = [a \in AccountIds |-> CycleEntry("none", NoMark, NoMark, NoMark)]

PollInit == PollInitWith([a \in AccountIds |-> 0])

MessageSets == {{ServerMsg(u) : u \in U} : U \in SUBSET Uids}

\* No fetch_threads call observed yet.
NoFetch == [live |-> "none", gmail |-> FALSE, answer |-> <<>>, forest |-> <<>>]
NoWalk == [size |-> 0, pages |-> <<>>, done |-> FALSE]

ThreadIdle ==
    /\ mailbox = {}
    /\ tfetch = NoFetch
    /\ twalk = NoWalk

NullAccount == 0   \* account_id: int = None
NoRule == [id |-> 0, account_id |-> NullAccount, conditions |-> {}, actions |-> "None"]
NoRuleCall == [site |-> "none", account |-> NullAccount, account_id |-> NullAccount,
               email |-> "none", rows |-> <<>>, result |-> "None", rule |-> NoRule]

RulesIdle ==
    /\ rules = <<>>
    /\ ruleCall = NoRuleCall

NoSeen == [broken |-> FALSE, reconnect |-> FALSE]

\* IMAPClient.__init__ has run _connect once: it logged in, or left client None.
SessInit ==
    /\ client \in {"none", "auth"}
    /\ link = "up"
    /\ sessLock = 0
    /\ spc = [t \in Threads |-> "idle"]
    /\ sop = [t \in Threads |-> "none"]
    /\ sseen = [t \in Threads |-> NoSeen]
    /\ sres = [t \in Threads |-> "none"]

SessIdle ==
    /\ client = "none"
    /\ link = "up"
    /\ sessLock = 0
    /\ spc = [t \in Threads |-> "idle"]
    /\ sop = [t \in Threads |-> "none"]
    /\ sseen = [t \in Threads |-> NoSeen]
    /\ sres = [t \in Threads |-> "none"]

NoFolderCall == [pc |-> "idle", kind |-> "none", account_id |-> 0, name |-> NoFolder]
NoReturn == [state |-> "none", id |-> NoFolderId]

FolderCallersIdle ==
    /\ fcall = [c \in Threads |-> NoFolderCall]
    /\ fret = [c \in Threads |-> NoReturn]

FoldersIdle ==
    /\ schemaUnique = FALSE
    /\ FolderCallersIdle

NoStoreCall == [runs |-> 0, ops |-> 0, args |-> <<>>, first |-> <<>>]

StoreIdle ==
    /\ etable = <<>>
    /\ ecall = NoStoreCall

NoSelLog == [op |-> "none", folder |-> NoFolder, sent |-> FALSE, cached |-> NoFolder, prev |-> "none", session |-> NoFolder]

NoOffline == [done |-> FALSE, source |-> "none", rows |-> {}, forest |-> <<>>]

MoreIdle == toffline = NoOffline /\ shown = NoFolder

LateIdle == selLog = NoSelLog /\ MoreIdle

ExtIdle == ThreadIdle /\ RulesIdle /\ SessIdle /\ FoldersIdle /\ StoreIdle /\ LateIdle

Init == CacheInit /\ ConnInit /\ ListInit /\ PollInit /\ ExtIdle

\* One call in a behaviour of the repository: the bound on the calls, and
\* the parts of the program the call does not touch.
RepoFrame ==
    /\ opCount' = IF emails' = emails /\ folders' = folders THEN MaxOps ELSE opCount + 1
    /\ UNCHANGED <<connVars, listVars, pollVars, extVars>>

NextRepo ==
    \/ /\ opCount < MaxOps
       /\ \E uids \in UidLists, t \in FolderNames, remote \in Remote :
              RepoMoveEmails(uids, t, remote) /\ RepoFrame
    \/ /\ opCount < MaxOps
       /\ \E uids \in UidLists, t \in FolderNames, remote \in Remote :
              RepoCopyEmails(uids, t, remote) /\ RepoFrame
    \/ /\ opCount < MaxOps
       /\ \E uids \in UidLists, fl \in FlagLists, f \in FolderNames \cup {NULL},
             remote \in Remote :
              RepoAddFlags(uids, fl, f, remote) /\ RepoFrame
    \/ /\ opCount < MaxOps
       /\ \E uids \in UidLists, fl \in FlagLists, f \in FolderNames \cup {NULL},
             remote \in Remote :
              RepoRemoveFlags(uids, fl, f, remote) /\ RepoFrame
    \/ /\ opCount < MaxOps
       /\ \E f \in FolderNames, live \in Live, msgs \in MessageSets, gmail \in BOOLEAN,
             page \in Pages :
              /\ live # "fallback" => ~gmail
              /\ live \in {"no_client", "error"} => (msgs = {} /\ page = <<100, 0>>)
              /\ \E answer \in ThreadAnswers(msgs) :
                     /\ live # "thread" => answer = CHOOSE a \in ThreadAnswers(msgs) : TRUE
                     /\ RepoFetchThreads(f, live, msgs, answer, gmail, page) /\ RepoFrame
    \/ /\ opCount < MaxOps
       /\ \E f \in FolderNames, uid \in Uids, live \in BOOLEAN, body \in Bodies :
              /\ ~live => body = <<"", "">>
              /\ RepoFetchEmailBody(f, uid, live, body) /\ RepoFrame
    \/ /\ opCount < MaxOps
       /\ \E a \in AccountIds, uid \in Uids : PollerCaches(a, uid) /\ RepoFrame

SpecRepo == Init /\ [][NextRepo]_vars

(***************************************************************************)
(* Claims on the repository and the cache.                                 *)
(***************************************************************************)
FlagSet(r) == SeqToSet(PyEval(r.flags))

RECURSIVE NodesOf(_)
\* every node of a forest, at any depth
NodesOf(forest) ==
    IF forest = <<>> THEN {}
    ELSE {Head(forest)} \cup NodesOf(Head(forest).children) \cup NodesOf(Tail(forest))

RemoteFailed == lastOp.remote \in {"false", "raise"}

\* C1: when the connection reports the remote move, add_flags or
\* remove_flags as failed (False or an exception), the call leaves tables
\* emails and folders exactly as they were: a cache write of a mutation
\* happens only after its remote call returned success.
C1_FailedRemoteLeavesCache ==
    (lastOp.op \in {"move", "add_flags", "remove_flags"} /\ RemoteFailed)
        => (emails = preEmails /\ folders = preFolders)

\* C1 witness: a failed move of a cached message to a folder the cache has
\* no row for yet.
C1_Witness ==
    /\ lastOp.op = "move" /\ RemoteFailed
    /\ \E r \in preEmails : r.account_id = RepoAccount /\ r.uid \in SeqToSet(lastOp.uids)
    /\ get_folder_id(folders, RepoAccount, lastOp.target) = NoFolderId
    /\ emails = preEmails /\ folders = preFolders

HasBody(r) == ~(r.body_text = NULL /\ r.body_html = NULL)

\* C3: a call that upserts with no body (list-fetch caching, poller
\* caching) leaves body_text and body_html of every row that had a body as
\* they were.
C3_NoBodyUpsertKeepsBody ==
    lastOp.op \in {"fetch_threads", "poll_cache"} =>
        \A r \in preEmails :
            (HasBody(r) /\ r.folder_id # NoFolderId) =>
                \E q \in emails :
                    /\ SameKey(q, r.account_id, r.folder_id, r.uid)
                    /\ q.body_text = r.body_text /\ q.body_html = r.body_html

\* C3 witness: a list fetch re-caches a message whose body was cached, with
\* other metadata than the body fetch wrote.
C3_Witness ==
    /\ lastOp.op = "fetch_threads" /\ lastOp.result = "live"
    /\ \E r \in preEmails :
          /\ Truthy(r.body_text) /\ r.account_id = RepoAccount
          /\ r.folder_id = get_folder_id(folders, RepoAccount, lastOp.folder)
          /\ r.uid \in {n.uid : n \in NodesOf(lastOp.forest)}
          /\ r \notin emails
          /\ \E q \in emails : /\ SameKey(q, r.account_id, r.folder_id, r.uid)
                               /\ q.body_text = r.body_text

\* C8: move_emails, copy_emails, add_flags and remove_flags give the caller
\* a boolean for every outcome of the remote call and of the cache update;
\* no exception escapes.
C8_MutationsReturnBool ==
    lastOp.op \in {"move", "copy", "add_flags", "remove_flags"}
        => lastOp.result \in {"true", "false"}

\* C9: after a successful add_flags (remove_flags) the cached flag set of
\* every listed message is its previous flag set united with (minus) the
\* flags, whether or not the caller named the folder.  With a folder named
\* the listed messages are the rows of that folder; with none, the rows of
\* the account under the listed uids.
C9_Listed(r) ==
    /\ r.account_id = RepoAccount /\ r.uid \in SeqToSet(lastOp.uids)
    /\ lastOp.folder # NULL =>
          r.folder_id = get_folder_id(folders, RepoAccount, lastOp.folder)

C9_Expected(r) ==
    IF lastOp.op = "add_flags" THEN FlagSet(r) \cup SeqToSet(lastOp.flags)
    ELSE FlagSet(r) \ SeqToSet(lastOp.flags)

C9_FlagsMirrored ==
    (lastOp.op \in {"add_flags", "remove_flags"} /\ lastOp.result = "true") =>
        \A r \in preEmails :
            C9_Listed(r) =>
                \E q \in emails : /\ SameKey(q, r.account_id, r.folder_id, r.uid)
                                  /\ FlagSet(q) = C9_Expected(r)

\* C10: after a successful fetch_threads every node of the returned forest,
\* at any depth, has a row under (account_id, folder_id, uid) that stores
\* the message's message-id, in-reply-to and references list.
C10_ThreadingMetadataCached ==
    (lastOp.op = "fetch_threads" /\ lastOp.result = "live") =>
        \A n \in NodesOf(lastOp.forest) :
            \E q \in emails :
                /\ SameKey(q, RepoAccount,
                           get_folder_id(folders, RepoAccount, lastOp.folder), n.uid)
                /\ q.message_id = ServerMsg(n.uid).msg_id
                /\ q.in_reply_to = ServerMsg(n.uid).in_reply_to
                /\ q.references_list = JsonDumps(ServerMsg(n.uid).references)

(***************************************************************************)
(* Connection: threads sharing one IMAPClient (core/imap_client.py) whose  *)
(* session is logged in, each running fetch_threads or fetch_email_body.   *)
(* One step is one protocol command, or taking or releasing _lock.         *)
(***************************************************************************)
ConnOps == {"fetch_threads", "fetch_email_body"}

\* fetch_threads / fetch_email_body up to "with self._lock": self.client is set
ConnCall(t, op, folder_name) ==
    /\ tpc[t] = "idle"
    /\ tpc' = [tpc EXCEPT ![t] = "lock"]
    /\ top' = [top EXCEPT ![t] = op]
    /\ tfolder' = [tfolder EXCEPT ![t] = folder_name]
    /\ UNCHANGED <<clientFolder, selFolder, selReadonly, lockHolder, lastCmd>>

\* with self._lock:
ConnAcquire(t) ==
    /\ tpc[t] = "lock"
    /\ lockHolder = 0
    /\ lockHolder' = t
    /\ tpc' = [tpc EXCEPT ![t] = "select"]
    /\ UNCHANGED <<clientFolder, selFolder, selReadonly, tfolder, top, lastCmd>>

AfterSelect(pc, op) ==
    CASE pc = "select" -> (IF op = "fetch_threads" THEN "thread" ELSE "fetch_body")
      [] pc = "fb_select" -> "fb_search"
      [] pc = "fe_select" -> "fe_search"

\* IMAPClient.select_folder(folder_name, readonly=True) at the three places
\* the two operations call it: in fetch_threads / fetch_email_body, in
\* _fetch_threads_fallback, in fetch_emails.  ok: the server accepts SELECT;
\* kept: a refused SELECT left the session on the folder it was on (else on
\* none).  The exception is logged and the caller goes on.
ConnSelect(t, ok, kept) ==
    /\ tpc[t] \in {"select", "fb_select", "fe_select"}
    /\ tpc' = [tpc EXCEPT ![t] = AfterSelect(tpc[t], top[t])]
    /\ IF selFolder = tfolder[t] /\ selReadonly = "true"
       THEN UNCHANGED <<clientFolder, selFolder, selReadonly>>
       ELSE IF ok
            THEN /\ clientFolder' = tfolder[t]
                 /\ selFolder' = tfolder[t]
                 /\ selReadonly' = "true"
            ELSE /\ clientFolder' = IF kept THEN clientFolder ELSE NoFolder
                 /\ selFolder' = NoFolder
                 /\ selReadonly' = "none"
    /\ UNCHANGED <<lockHolder, tfolder, top, lastCmd>>

CmdOf(pc) ==
    CASE pc = "thread" -> "THREAD"
      [] pc \in {"fb_search", "fe_search"} -> "SEARCH"
      [] OTHER -> "FETCH"

\* where a command that answered leads (empty: it answered with nothing)
AfterOk(pc, empty) ==
    CASE pc = "thread" -> (IF empty THEN "unlock" ELSE "fetch0")
      [] pc = "fb_search" -> (IF empty THEN "unlock" ELSE "fb_fetch")
      [] pc = "fe_search" -> (IF empty THEN "unlock" ELSE "fe_fetch")
      [] OTHER -> "unlock"

\* where a command that raised leads: THREAD to _fetch_threads_fallback,
\* the fallback's SEARCH and FETCH to fetch_emails, the others to return
AfterRaise(pc) ==
    CASE pc = "thread" -> "fb_select"
      [] pc \in {"fb_search", "fb_fetch"} -> "fe_select"
      [] OTHER -> "unlock"

CommandPcs == {"thread", "fetch0", "fb_search", "fb_fetch", "fe_search", "fe_fetch",
               "fetch_body"}

\* self.client.thread / search / fetch on behalf of tfolder[t]; a session
\* with no folder selected refuses the command
ConnCommand(t, ok, empty) ==
    /\ tpc[t] \in CommandPcs
    /\ clientFolder = NoFolder => ~ok
    /\ lastCmd' = [cmd |-> CmdOf(tpc[t]), forFolder |-> tfolder[t],
                   onFolder |-> clientFolder, thread |-> t, locked |-> lockHolder,
                   answered |-> ok]
    /\ tpc' = [tpc EXCEPT ![t] = IF ok THEN AfterOk(tpc[t], empty)
                                 ELSE AfterRaise(tpc[t])]
    /\ UNCHANGED <<clientFolder, selFolder, selReadonly, lockHolder, tfolder, top>>

\* leaving "with self._lock"
ConnRelease(t) ==
    /\ tpc[t] = "unlock"
    /\ lockHolder' = 0
    /\ tpc' = [tpc EXCEPT ![t] = "idle"]
    /\ UNCHANGED <<clientFolder, selFolder, selReadonly, tfolder, top, lastCmd>>

\* the parts of the program a step of the connection does not touch
ConnFrame == UNCHANGED <<cacheVars, listVars, pollVars, extVars>>

NextConn ==
    \/ \E t \in Threads, op \in ConnOps, f \in FolderNames : ConnCall(t, op, f) /\ ConnFrame
    \/ \E t \in Threads : ConnAcquire(t) /\ ConnFrame
    \/ \E t \in Threads, ok \in BOOLEAN, kept \in BOOLEAN :
           ConnSelect(t, ok, kept) /\ ConnFrame
    \/ \E t \in Threads, ok \in BOOLEAN, empty \in BOOLEAN :
           ConnCommand(t, ok, empty) /\ ConnFrame
    \/ \E t \in Threads : ConnRelease(t) /\ ConnFrame

SpecConn == Init /\ [][NextConn]_vars

\* C2: every THREAD, SEARCH and FETCH issued on behalf of folder F runs
\* while F is the folder selected on the session, also when the SELECT of F
\* was refused.
C2_CommandsOnSelectedFolder ==
    lastCmd.cmd # "none" => lastCmd.onFolder = lastCmd.forFolder

\* The lock does serialise the two operations: a command is only issued by
\* the thread that holds _lock.
ConnCommandsUnderLock ==
    lastCmd.cmd # "none" => lastCmd.locked = lastCmd.thread

(***************************************************************************)
(* Email list: ui/panels/email_list.py.  The UI thread runs                *)
(* on_folder_selected and the wx.CallAfter deliveries one at a time;       *)
(* every load starts a worker thread that fetches through the repository   *)
(* and posts its result.  Paging is not exercised (offset is 0), no rule   *)
(* is configured, and a worker's fetch_threads is one step.                *)
(***************************************************************************)
\* EmailRepository.get_cached_threads gives a non-empty list: the folder has
\* an id and rows (no row of the model is its own ancestor, so some row is a
\* root).
HasCachedThreads(folder_name) ==
    LET folder_id == get_folder_id(folders, RepoAccount, folder_name)
    IN folder_id # NoFolderId
       /\ \E r \in emails : r.account_id = RepoAccount /\ r.folder_id = folder_id

Worker(st, src, folder, error) == [st |-> st, src |-> src, folder |-> folder, error |-> error]

\* EmailListPanel.on_folder_selected and the load_emails it calls
on_folder_selected(folder_name) ==
    /\ loadToken < MaxLoads
    /\ currentFolder' = folder_name
    /\ loadToken' = loadToken + 1
    /\ threadsShown' = IF HasCachedThreads(folder_name)
                       THEN ThreadList("cache", loadToken + 1, folder_name)
                       ELSE threadsShown
    /\ workers' = Append(workers, Worker("started", "none", NoFolder, FALSE))
    /\ UNCHANGED <<pending, staleApplied, cacheVars, connVars, pollVars, extVars>>

\* What a worker's repository.fetch_threads meets on the connection.
WorkerLive == {"fallback_flat", "error"}

\* EmailListPanel._load_emails_worker(token) raising before it fetched
\* (RuleManager(), upsert_folder): wx.CallAfter(..., token, [], 0, error)
load_emails_worker_raises(token) ==
    /\ token \in 1..Len(workers)
    /\ workers[token].st = "started"
    /\ workers' = [workers EXCEPT ![token] = Worker("posted", "none", currentFolder, TRUE)]
    /\ pending' = Append(pending, token)
    /\ UNCHANGED <<loadToken, currentFolder, threadsShown, staleApplied,
                   cacheVars, connVars, pollVars, extVars>>

\* EmailListPanel._load_emails_worker(token): fetch_threads of the folder
\* that is current when the worker runs, then wx.CallAfter(_finish_load_emails, ...)
load_emails_worker(token, live, msgs) ==
    /\ token \in 1..Len(workers)
    /\ workers[token].st = "started"
    /\ CacheFetchedThreads(currentFolder, live,
                           imap_fetch_threads(live, msgs, <<>>, FALSE, 100, 0), 100, 0)
    /\ workers' = [workers EXCEPT ![token] =
                      Worker("posted", lastOp'.result, currentFolder, FALSE)]
    /\ pending' = Append(pending, token)
    /\ UNCHANGED <<loadToken, currentFolder, threadsShown, staleApplied, opCount,
                   connVars, pollVars, extVars>>

\* A delivery that applies whatever arrives.
finish_load_emails_AnyToken(threads, load_token, token, raw_threads, error) ==
    IF error THEN threads ELSE raw_threads

\* EmailListPanel._finish_load_emails: self.threads after the call
finish_load_emails(threads, load_token, token, raw_threads, error) ==
    IF token # load_token THEN threads
    ELSE IF error THEN threads
    ELSE raw_threads

\* The UI thread runs the oldest posted _finish_load_emails.
FinishLoadEmails ==
    /\ pending # <<>>
    /\ LET token == Head(pending)
           w == workers[token]
       IN /\ threadsShown' = finish_load_emails(threadsShown, loadToken, token,
                                                ThreadList(w.src, token, w.folder),
                                                w.error)
          /\ workers' = [workers EXCEPT ![token].st =
                            IF token = loadToken THEN "current" ELSE "stale"]
          /\ staleApplied' = (staleApplied
                              \/ (token # loadToken /\ threadsShown' # threadsShown))
    /\ pending' = Tail(pending)
    /\ UNCHANGED <<loadToken, currentFolder, cacheVars, connVars, pollVars, extVars>>

NextList ==
    \/ \E f \in FolderNames : on_folder_selected(f)
    \/ \E t \in 1..MaxLoads : load_emails_worker_raises(t)
    \/ \E t \in 1..MaxLoads, live \in WorkerLive, msgs \in MessageSets :
           /\ live = "error" => msgs = {}
           /\ load_emails_worker(t, live, msgs)
    \/ FinishLoadEmails

SpecList == Init /\ [][NextList]_vars

AllReported ==
    /\ loadToken >= 2
    /\ pending = <<>>
    /\ \A t \in 1..Len(workers) : workers[t].st \in {"current", "stale"}

LatestResult == ThreadList(workers[loadToken].src, loadToken, workers[loadToken].folder)

NumAccounts == Cardinality(AccountIds)
StartSizes == {0, MaxInbox - 1}

\* A watermark that is never read back: every search starts at uid 1.
LastUidGet_Forgetful(entry) == 0

\* self.last_uids.get(email_addr, 0)
LastUidGet(entry) == IF entry.set THEN entry.uid ELSE 0

\* client.client.search(['UID', 'lo:*']) on an INBOX holding 1..n: the uids
\* from lo on, and the highest uid in any case ("*" is the highest)
SearchFrom(n, lo) == {u \in 1..n : u >= lo} \cup (IF n > 0 THEN {n} ELSE {})

NotifyLimit == 3    \* sorted(real_new_uids)[-3:]

\* sorted(real_new_uids)[-3:]
LatestUids(real_new_uids) ==
    {u \in real_new_uids : Cardinality({v \in real_new_uids : v > u}) < NotifyLimit}

RECURSIVE PollerCacheAll(_, _, _)
\* the cache (folders, next folder id, emails) after the loop over
\* response.items() handled uids
PollerCacheAll(c, account_id, uids) ==
    IF uids = <<>> THEN c
    ELSE PollerCacheAll(poller_cache(c.folders, c.next, c.emails, account_id, Head(uids)),
                        account_id, Tail(uids))

\* MainFrame.__init__: self.email_poller.start()
PollerStart ==
    /\ ppc = "created"
    /\ ppc' = "started"
    /\ UNCHANGED <<running, last_uids, pidx, inbox, startInbox, notified, found,
                   stopCalled, lateIter, cycle, cycleLog, cacheVars, connVars, listVars, extVars>>

\* EmailPoller.stop, called by MainFrame.force_exit
PollerStop ==
    /\ ppc # "created"
    /\ ~stopCalled
    /\ running' = FALSE
    /\ stopCalled' = TRUE
    /\ UNCHANGED <<last_uids, ppc, pidx, inbox, startInbox, notified, found, lateIter,
                   cycle, cycleLog, cacheVars, connVars, listVars, extVars>>

\* EmailPoller.run, line 21: self.running = True
PollerRun ==
    /\ ppc = "started"
    /\ running' = TRUE
    /\ ppc' = "sync"
    /\ pidx' = 1
    /\ UNCHANGED <<last_uids, inbox, startInbox, notified, found, stopCalled, lateIter,
                   cycle, cycleLog, cacheVars, connVars, listVars, extVars>>

\* A failure of the account that raised, or left no client: the loop goes on
\* with the next account all the same.
AfterAccount_Aborting(idx, outcome) ==
    IF outcome = "ok" THEN idx + 1 ELSE NumAccounts + 1

\* for acc in accounts: try: ... except Exception: logger.error(...)
AfterAccount(idx, outcome) == idx + 1

SyncOutcomes == {"ok", "no_client", "error"}

\* EmailPoller._sync_initial_uids, one account of the loop
SyncAccount(outcome) ==
    /\ ppc = "sync"
    /\ last_uids' = IF outcome = "ok"
                    THEN [last_uids EXCEPT ![pidx] = Mark(inbox[pidx])]
                    ELSE last_uids
    /\ pidx' = AfterAccount(pidx, outcome)
    /\ ppc' = IF pidx' > NumAccounts THEN "check" ELSE "sync"
    /\ UNCHANGED <<running, inbox, startInbox, notified, found, stopCalled, lateIter,
                   cycle, cycleLog, cacheVars, connVars, listVars, extVars>>

\* EmailPoller.run, line 27: while self.running
LoopCheck ==
    /\ ppc = "check"
    /\ running => cycle < MaxCycles
    /\ ppc' = IF running THEN "sleep" ELSE "exited"
    /\ lateIter' = (lateIter \/ (running /\ stopCalled))
    /\ UNCHANGED <<running, last_uids, pidx, inbox, startInbox, notified, found,
                   stopCalled, cycle, cycleLog, cacheVars, connVars, listVars, extVars>>

\* time.sleep(self.interval), then _poll_accounts begins
PollerSleep ==
    /\ ppc = "sleep"
    /\ ppc' = "poll"
    /\ pidx' = 1
    /\ cycle' = cycle + 1
    /\ cycleLog' = [a \in AccountIds |->
                       CycleEntry("none", last_uids[a], last_uids[a], last_uids[a])]
    /\ UNCHANGED <<running, last_uids, inbox, startInbox, notified, found, stopCalled,
                   lateIter, cacheVars, connVars, listVars, extVars>>

\* How the poll of one account ends: "no_client" (connect failed), "search_error"
\* (select or search raised), "fetch_error", "cache_error" (a cache write
\* raised), "sound_error" (play_sound raised), "ok".
PollOutcomes == {"ok", "no_client", "search_error", "fetch_error", "cache_error",
                 "sound_error"}

\* uids of the response that got their toast: all of them, or those before
\* the statement that raised (handled: uids the loop had completed by then)
ToastCount(outcome, handled, n) ==
    CASE outcome = "ok" -> n
      [] outcome = "cache_error" -> handled
      [] outcome = "sound_error" -> handled + 1
      [] OTHER -> 0

\* EmailPoller._poll_accounts, one account of the loop
PollAccount(outcome, handled) ==
    LET a == pidx
        last_uid == LastUidGet(last_uids[a])
        real_new_uids == {u \in SearchFrom(inbox[a], last_uid + 1) : u > last_uid}
        searched == outcome \notin {"no_client", "search_error"}
        latest_uids == AscendingUids(LatestUids(real_new_uids))
        done == SubSeq(latest_uids, 1, ToastCount(outcome, handled, Len(latest_uids)))
        cache == PollerCacheAll([folders |-> folders, next |-> nextFolderId,
                                 emails |-> emails], a, done)
    IN /\ ppc = "poll"
       /\ outcome \in {"fetch_error", "cache_error", "sound_error"} => real_new_uids # {}
       /\ handled < Len(latest_uids) \/ handled = 0
       /\ outcome \notin {"cache_error", "sound_error"} => handled = 0
       /\ last_uids' = IF searched /\ real_new_uids # {}
                       THEN [last_uids EXCEPT ![a] = Mark(MaxOf(real_new_uids))]
                       ELSE last_uids
       /\ found' = IF searched THEN found \cup {[acc |-> a, uid |-> u] : u \in real_new_uids}
                   ELSE found
       /\ notified' = notified \cup {[acc |-> a, uid |-> done[i], cycle |-> cycle] :
                                       i \in 1..Len(done)}
       /\ folders' = cache.folders
       /\ nextFolderId' = cache.next
       /\ emails' = cache.emails
       /\ cycleLog' = [cycleLog EXCEPT ![a] =
                          CycleEntry(outcome, cycleLog[a].start, last_uids[a], last_uids'[a])]
       /\ pidx' = AfterAccount(pidx, outcome)
       /\ ppc' = IF pidx' > NumAccounts THEN "check" ELSE "poll"
       /\ UNCHANGED <<running, inbox, startInbox, stopCalled, lateIter, cycle,
                      lastOp, preEmails, preFolders, opCount, connVars, listVars, extVars>>

\* The server delivers a message to an account's INBOX.
MailArrives(a) ==
    /\ inbox[a] < MaxInbox
    /\ inbox[a] < startInbox[a] + MaxNew
    /\ inbox' = [inbox EXCEPT ![a] = inbox[a] + 1]
    /\ UNCHANGED <<running, last_uids, ppc, pidx, startInbox, notified, found, stopCalled,
                   lateIter, cycle, cycleLog, cacheVars, connVars, listVars, extVars>>

InitPoller ==
    /\ CacheInit /\ ConnInit /\ ListInit /\ ExtIdle
    /\ \E sizes \in [AccountIds -> StartSizes] : PollInitWith(sizes)

NextPoller ==
    \/ PollerStart
    \/ PollerStop
    \/ PollerRun
    \/ \E outcome \in SyncOutcomes : SyncAccount(outcome)
    \/ LoopCheck
    \/ PollerSleep
    \/ \E outcome \in PollOutcomes, handled \in 0..(NotifyLimit - 1) :
           PollAccount(outcome, handled)
    \/ \E a \in AccountIds : MailArrives(a)

SpecPoller == InitPoller /\ [][NextPoller]_vars

\* C5 as stated: the initial snapshot shows no notification; when the INBOX
\* held uids 1..MaxInbox-1 at startup and a poll cycle finds uid MaxInbox,
\* exactly one notification is shown for the account, and it is for that uid.
C5_ColdStartSilence ==
    /\ cycle = 0 => notified = {}
    /\ \A a \in AccountIds :
          (startInbox[a] = MaxInbox - 1 /\ [acc |-> a, uid |-> MaxInbox] \in found) =>
              /\ Cardinality({n \in notified : n.acc = a}) = 1
              /\ \A n \in notified : n.acc = a => n.uid = MaxInbox

\* C6 as stated: once stop() has been called the loop begins no further
\* iteration, wherever start(), the beginning of run() and stop() fall.
C6_StopEndsLoop == ~lateIter

CycleDone == ppc = "check" /\ cycle >= 1

\* C7: at the end of a poll cycle every configured account has been polled,
\* whatever failed for the others, and each account's watermark was read and
\* written by its own poll only.
C7_AccountFailuresIsolated ==
    CycleDone =>
        \A a \in AccountIds :
            /\ cycleLog[a].outcome # "none"
            /\ cycleLog[a].seen = cycleLog[a].start
            /\ last_uids[a] = cycleLog[a].mark
            /\ cycleLog[a].outcome \in {"no_client", "search_error"} =>
                   cycleLog[a].mark = cycleLog[a].start

\* C7 witness: the poll of the first account raised, and the same cycle
\* polled the second account, notified its new message and moved its
\* watermark.
C7_Witness ==
    /\ CycleDone
    /\ cycleLog[1].outcome \in {"search_error", "fetch_error"}
    /\ cycleLog[2].outcome = "ok"
    /\ cycleLog[2].mark # cycleLog[2].start
    /\ \E n \in notified : n.acc = 2 /\ n.cycle = cycle

(***************************************************************************)
(* Threading engine on one folder state: IMAPClient.fetch_threads is       *)
(* called on a folder whose messages are drawn from a bounded universe     *)
(* (dates, header links and subjects vary per message), first for the      *)
(* whole list, then page by page as EmailListPanel.on_next_page does.      *)
(***************************************************************************)
NoLink == [in_reply_to |-> "", references |-> <<>>]
Link(in_reply_to, references) == [in_reply_to |-> in_reply_to, references |-> references]

\* Header links a message of the universe may carry: none; its own id in
\* References and an id no fetched message has ("x") in In-Reply-To; its
\* parent in In-Reply-To only; a References chain; a References list whose
\* last entry is unknown, with another message in In-Reply-To.
LinkChoices(u) ==
    CASE u = 1 -> {NoLink, Link("x", <<"a">>)}
      [] u = 2 -> {NoLink, Link("a", <<>>)}
      [] u = 3 -> {NoLink, Link("b", <<"a", "b">>), Link("a", <<"b", "x">>)}
      [] u = 4 -> {NoLink, Link("", <<"c">>)}
      [] OTHER -> {NoLink}

SubjectChoices(u) ==
    CASE u = 1 -> {SubjHello}
      [] u = 2 -> {SubjReHello}
      [] u = 3 -> {SubjREhello, SubjHi}
      [] u = 4 -> {SubjFwdHello, SubjHi}
      [] OTHER -> {SubjHi}

ThreadMsg(u, date, hdr, subject) ==
    [uid |-> u, msg_id |-> MsgIdOf[u], in_reply_to |-> hdr.in_reply_to,
     references |-> hdr.references, subject |-> subject,
     sender |-> IF u % 2 = 1 THEN "ann" ELSE "bob", date |-> date, flags |-> <<>>,
     gm_thrid |-> CASE u <= 2 -> 7 [] u = 3 -> 0 [] OTHER -> 9]

AllLinks == UNION {LinkChoices(u) : u \in 1..MaxMsgs}
AllSubjects == UNION {SubjectChoices(u) : u \in 1..MaxMsgs}

\* The folders of n messages: every order of the dates, every choice of links
\* and subjects.
Mailboxes(n) ==
    {{ThreadMsg(u, d[u], l[u], sj[u]) : u \in 1..n} :
        d \in Permutations(1..n),
        l \in {f \in [1..n -> AllLinks] : \A u \in 1..n : f[u] \in LinkChoices(u)},
        sj \in {f \in [1..n -> AllSubjects] : \A u \in 1..n : f[u] \in SubjectChoices(u)}}

MailboxSizes == {2, MaxMsgs}

DefaultLimit == 100   \* limit: int = 100
PageSizes == 1..(MaxMsgs - 2)

CallArgs(live, answer, gmail, limit, offset) ==
    [live |-> live, answer |-> answer, gmail |-> gmail, limit |-> limit, offset |-> offset]

\* The calls the list makes on one folder state: the first one with the
\* default page; then, with a smaller page size, page after page from offset
\* 0 (EmailListPanel.on_next_page: offset += limit) until a page is empty.
NextCalls ==
    IF tfetch = NoFetch
    THEN {CallArgs("thread", answer, FALSE, DefaultLimit, 0) :
              answer \in ThreadAnswers(mailbox)}
         \cup {CallArgs("fallback", <<>>, gmail, DefaultLimit, 0) : gmail \in BOOLEAN}
    ELSE IF twalk.done THEN {}
    ELSE {CallArgs(tfetch.live, tfetch.answer, tfetch.gmail, size,
                   Len(twalk.pages) * size) :
              size \in IF twalk.size = 0 THEN PageSizes ELSE {twalk.size}}

\* One IMAPClient.fetch_threads call and what the caller sees of it.
FetchThreadsCall(args, result) ==
    /\ IF tfetch = NoFetch
       THEN /\ tfetch' = [live |-> args.live, gmail |-> args.gmail,
                          answer |-> args.answer, forest |-> result]
            /\ UNCHANGED twalk
       ELSE /\ twalk' = [size |-> args.limit,
                         pages |-> IF result = <<>> THEN twalk.pages
                                   ELSE Append(twalk.pages, result),
                         done |-> result = <<>>]
            /\ UNCHANGED tfetch
    /\ UNCHANGED <<mailbox, cacheVars, connVars, listVars, pollVars, ruleVars, sessVars, folderVars, storeVars, lateVars>>

\* The list handed to _merge_by_subject by the tier that ran.
MergeInput(live, msgs, threads, gmail) ==
    CASE live = "thread" -> BuildThreads(msgs, threads)
      [] live = "fallback" /\ gmail -> Tier1Roots(msgs)
      [] OTHER -> Tier2Roots(msgs)

InitThread ==
    /\ CacheInit /\ ConnInit /\ ListInit /\ PollInit
    /\ \E n \in MailboxSizes : mailbox \in Mailboxes(n)
    /\ tfetch = NoFetch
    /\ twalk = NoWalk
    /\ RulesIdle
    /\ SessIdle
    /\ FoldersIdle
    /\ StoreIdle /\ LateIdle

NextThread ==
    \E args \in NextCalls :
        FetchThreadsCall(args, imap_fetch_threads(args.live, mailbox, args.answer,
                                                  args.gmail, args.limit, args.offset))

SpecThread == InitThread /\ [][NextThread]_vars

(***************************************************************************)
(* Claims on the threading engine.                                         *)
(***************************************************************************)
(***************************************************************************)
(* Smart-folder rules: core/rule_manager.py, and the rule pass of the      *)
(* email list's load worker.  Strings are sequences of characters.         *)
(***************************************************************************)
MaxRules == 2      \* rows of the rules table
RuleAccounts == {1, 2}

AddrNewsletter == <<"N", "e", "w", "s", "L", "e", "t", "t", "e", "r", "@", "E", "x", "a", "m", "p", "l", "e", ".", "c", "o", "m">>
AddrBoss == <<"b", "o", "s", "s", "@", "e", "x", "a", "m", "p", "l", "e", ".", "c", "o", "m">>
AddrMe == <<"m", "e", "@", "x", ".", "o", "r", "g">>
AddrTeam == <<"T", "e", "a", "m", "@", "x", ".", "o", "r", "g">>
TextSale == <<"S", "a", "l", "e">>
TextReport == <<"R", "e", "p", "o", "r", "t">>

\* The messages rules are applied to: the fields fetch_threads fills in.
MailNews == [uid |-> 1, sender |-> AddrNewsletter, subject |-> TextSale, to |-> AddrMe, cc |-> <<>>]
MailBoss == [uid |-> 2, sender |-> AddrBoss, subject |-> TextReport, to |-> AddrTeam, cc |-> AddrMe]
MailBare == [uid |-> 3, sender |-> AddrTeam, subject |-> <<>>, to |-> <<>>, cc |-> <<>>]
RuleMails == {MailNews, MailBoss, MailBare}

ValNewsletter == <<"n", "e", "w", "s", "l", "e", "t", "t", "e", "r", "@">>
ValBossNews == <<"B", "o", "s", "s", " ", ",", " ", "N", "E", "W", "S">>
ValMe == <<"M", "E", "@">>
ValExample == <<"e", "x", "a", "m", "p", "l", "e">>
ValReport == <<"r", "e", "p", "o", "r", "t", ",", " ">>
ValBlank == <<" ", ",", " ">>
ValSale == <<"s", "a", "l", "e">>

Cond(field, value) == [field |-> field, value |-> value]

\* The condition dicts a rule may be stored with.
RuleConditions ==
    {{Cond("sender", ValNewsletter)},
     {Cond("sender", ValBossNews)},
     {Cond("recipient", ValMe)},
     {Cond("sender", ValExample), Cond("subject", ValReport)},
     {Cond("sender", ValBlank)},
     {Cond("body", ValSale)},
     {}}

\* One condition with a value that is not blank: what RulesDialog stores.
DialogConditions ==
    {c \in RuleConditions :
        /\ Cardinality(c) = 1
        /\ \A k \in c : k.field \in {"sender", "subject"} /\ Strip(k.value) # <<>>}

RuleFolders == <<"News", "Work", "Later">>

\* str.lower()
Lower(s) == [i \in 1..Len(s) |-> LowerOf(s[i])]

RECURSIVE FindComma(_, _)
FindComma(s, i) ==
    IF i > Len(s) THEN 0 ELSE IF s[i] = "," THEN i ELSE FindComma(s, i + 1)

RECURSIVE SplitComma(_)
\* str.split(',')
SplitComma(s) ==
    IF FindComma(s, 1) = 0 THEN <<s>>
    ELSE <<SubSeq(s, 1, FindComma(s, 1) - 1)>>
         \o SplitComma(SubSeq(s, FindComma(s, 1) + 1, Len(s)))

NotBlank(v) == Strip(v) # <<>>

\* [v.strip() for v in value.split(',') if v.strip()]
target_values(value) ==
    LET parts == SelectSeq(SplitComma(Lower(value)), NotBlank)
    IN {Strip(parts[i]) : i \in 1..Len(parts)}

\* tv in field
Contains(field, tv) ==
    \E i \in 1..(Len(field) - Len(tv) + 1) : SubSeq(field, i, i + Len(tv) - 1) = tv

\* recipients = f"{to}, {cc}"
Recipients(email) == Lower(email.to) \o <<",", " ">> \o Lower(email.cc)

\* one pass of "for field, value in conditions.items()"
FieldMatches(cond, email) ==
    \E tv \in target_values(cond.value) :
        CASE cond.field = "sender" -> Contains(Lower(email.sender), tv)
          [] cond.field = "subject" -> Contains(Lower(email.subject), tv)
          [] cond.field = "recipient" -> Contains(Recipients(email), tv)
          [] OTHER -> FALSE

RuleMatches_AnyCondition(rule, email) == \E cond \in rule.conditions : FieldMatches(cond, email)

\* match stays True through every condition (AND logic)
RuleMatches(rule, email) == \A cond \in rule.conditions : FieldMatches(cond, email)

RECURSIVE SelectRules(_, _)
SelectRules(rows, account_id) ==
    IF rows = <<>> THEN <<>>
    ELSE (IF account_id = NullAccount \/ Head(rows).account_id \in {account_id, NullAccount}
          THEN <<Head(rows)>> ELSE <<>>)
         \o SelectRules(Tail(rows), account_id)

\* RuleManager.get_rules: every active rule when account_id is None, else
\* the rules of that account and the rules with no account.
get_rules(account_id) == SelectRules(rules, account_id)

RECURSIVE FirstMatch(_, _)
\* for rule in rules: ... if match: return
FirstMatch(rows, email) ==
    IF rows = <<>> THEN NoRule
    ELSE IF RuleMatches(Head(rows), email) THEN Head(rows)
    ELSE FirstMatch(Tail(rows), email)

\* RuleManager.apply_rules: the actions of the first matching rule, or None
apply_rules(email, account_id) == FirstMatch(get_rules(account_id), email).actions

\* RuleManager.add_rule
add_rule(conditions, account_id) ==
    /\ Len(rules) < MaxRules
    /\ rules' = Append(rules, [id |-> Len(rules) + 1, account_id |-> account_id,
                               conditions |-> conditions,
                               actions |-> RuleFolders[Len(rules) + 1]])
    /\ UNCHANGED <<ruleCall, threadVars, sessVars, folderVars, storeVars, lateVars, cacheVars, connVars, listVars, pollVars>>

\* RulesDialog.on_add_rule: one condition, all fields filled, no account
on_add_rule(conditions) ==
    /\ conditions \in DialogConditions
    /\ add_rule(conditions, NullAccount)

RecordRuleCall(site, account, account_id, email, result, rule) ==
    /\ ruleCall' = [site |-> site, account |-> account, account_id |-> account_id,
                    email |-> email.uid, rows |-> rules, result |-> result, rule |-> rule]
    /\ UNCHANGED <<rules, threadVars, sessVars, folderVars, storeVars, lateVars, cacheVars, connVars, listVars, pollVars>>

\* A caller applies the rules of one account to a message of that account.
ApplyRulesCall(email, account_id) ==
    RecordRuleCall("api", account_id, account_id, email, apply_rules(email, account_id),
                   FirstMatch(get_rules(account_id), email))

\* EmailListPanel._load_emails_worker.check_and_mark on a message of the
\* list's account: rule_manager.apply_rules(email_obj), no account given.
check_and_mark(account, email) ==
    RecordRuleCall("list", account, NullAccount, email, apply_rules(email, NullAccount),
                   FirstMatch(get_rules(NullAccount), email))

InitRules ==
    /\ CacheInit /\ ConnInit /\ ListInit /\ PollInit
    /\ ThreadIdle
    /\ RulesIdle
    /\ SessIdle
    /\ FoldersIdle
    /\ StoreIdle /\ LateIdle

NextRules ==
    \/ \E conditions \in RuleConditions, account_id \in RuleAccounts :
           add_rule(conditions, account_id)
    \/ \E conditions \in RuleConditions : on_add_rule(conditions)
    \/ \E email \in RuleMails, account_id \in RuleAccounts : ApplyRulesCall(email, account_id)
    \/ \E email \in RuleMails, account \in RuleAccounts : check_and_mark(account, email)

SpecRules == InitRules /\ [][NextRules]_vars

(***************************************************************************)
(* One IMAPClient shared by several threads: how its public operations     *)
(* connect, lock and issue commands (core/imap_client.py).                 *)
(***************************************************************************)
\* Operations that take _lock around their commands, and those that do not.
LockedOps == {"fetch_threads", "move_emails"}
UnlockedOps == {"list_folders", "create_folder"}
SessOps == LockedOps \cup UnlockedOps

SessFrame == UNCHANGED <<threadVars, ruleVars, folderVars, storeVars, lateVars, cacheVars, connVars, listVars, pollVars>>

\* A thread calls a public operation.
SessBegin(t, op) ==
    /\ spc[t] = "idle"
    /\ spc' = [spc EXCEPT ![t] = "entered"]
    /\ sop' = [sop EXCEPT ![t] = op]
    /\ sseen' = [sseen EXCEPT ![t] = [broken |-> client # "none" /\ link = "down",
                                      reconnect |-> FALSE]]
    /\ sres' = [sres EXCEPT ![t] = "none"]
    /\ UNCHANGED <<client, link, sessLock>>
    /\ SessFrame

\* "if not self.client: self._connect()": _connect up to the creation of the
\* connection object (no account, no password or a refused connection leave
\* client None).
SessEnsure(t, made) ==
    /\ spc[t] = "entered"
    /\ IF client = "none"
       THEN /\ sseen' = [sseen EXCEPT ![t].reconnect = TRUE]
            /\ IF made
               THEN client' = "unauth" /\ link' = "up"
                    /\ spc' = [spc EXCEPT ![t] = "login"]
               ELSE UNCHANGED <<client, link>>
                    /\ spc' = [spc EXCEPT ![t] = "checked"]
       ELSE /\ UNCHANGED <<client, link, sseen>>
            /\ spc' = [spc EXCEPT ![t] = "checked"]
    /\ UNCHANGED <<sessLock, sop, sres>>
    /\ SessFrame

\* _connect: self.client.login(...); a failure sets client to None.
SessLogin(t, ok) ==
    /\ spc[t] = "login"
    /\ client' = IF ok THEN "auth" ELSE "none"
    /\ spc' = [spc EXCEPT ![t] = "checked"]
    /\ UNCHANGED <<link, sessLock, sop, sseen, sres>>
    /\ SessFrame

\* "if not self.client: return []": the second check, then "with self._lock"
\* for the operations that have it.
SessEnter(t) ==
    /\ spc[t] = "checked"
    /\ IF client = "none"
       THEN /\ spc' = [spc EXCEPT ![t] = "idle"]
            /\ sres' = [sres EXCEPT ![t] = "empty"]
            /\ UNCHANGED sessLock
       ELSE /\ sop[t] \in LockedOps => sessLock = 0
            /\ sessLock' = IF sop[t] \in LockedOps THEN t ELSE sessLock
            /\ spc' = [spc EXCEPT ![t] = "cmd"]
            /\ UNCHANGED sres
    /\ UNCHANGED <<client, link, sop, sseen>>
    /\ SessFrame

\* How a command sent on the connection can end, for the state it is sent in.
CommandOutcomes ==
    IF client # "auth" THEN {"error"}
    ELSE IF link = "down" THEN {"transport"}
    ELSE {"ok", "error", "transport"}

\* The command of the operation, inside try/except: every exception is
\* logged and turned into the empty/False result; client is left as it is.
SessCommand(t, outcome) ==
    /\ spc[t] = "cmd"
    /\ outcome \in CommandOutcomes
    /\ link' = IF outcome = "transport" THEN "down" ELSE link
    /\ sres' = [sres EXCEPT ![t] = IF outcome = "ok" THEN "ok" ELSE "empty"]
    /\ sessLock' = IF sessLock = t THEN 0 ELSE sessLock
    /\ spc' = [spc EXCEPT ![t] = "idle"]
    /\ UNCHANGED <<client, sop, sseen>>
    /\ SessFrame

\* IMAPClient.logout
SessLogout(t) ==
    /\ spc[t] = "idle"
    /\ client # "none"
    /\ client' = "none"
    /\ UNCHANGED <<link, sessLock, spc, sop, sseen, sres>>
    /\ SessFrame

InitSession ==
    /\ CacheInit /\ ConnInit /\ ListInit /\ PollInit
    /\ ThreadIdle /\ RulesIdle /\ FoldersIdle /\ StoreIdle /\ LateIdle
    /\ SessInit

NextSession ==
    \/ \E t \in Threads, op \in SessOps : SessBegin(t, op)
    \/ \E t \in Threads, made \in BOOLEAN : SessEnsure(t, made)
    \/ \E t \in Threads, ok \in BOOLEAN : SessLogin(t, ok)
    \/ \E t \in Threads : SessEnter(t)
    \/ \E t \in Threads, outcome \in {"ok", "error", "transport"} : SessCommand(t, outcome)
    \/ \E t \in Threads : SessLogout(t)

SpecSession == InitSession /\ [][NextSession]_vars

(***************************************************************************)
(* DBManager.upsert_folder called from several threads.  Every statement   *)
(* runs on a connection of its own (fetch_one, execute_commit), so a call  *)
(* is a SELECT and then an INSERT, and other callers' statements can come  *)
(* between the two.                                                        *)
(***************************************************************************)
FolderFrame == UNCHANGED <<emails, lastOp, preEmails, preFolders, opCount, threadVars, ruleVars, sessVars, storeVars, lateVars, connVars, listVars, pollVars>>

FolderRows(account_id, name) == {f \in folders : f.account_id = account_id /\ f.name = name}

Returned(id) == [state |-> "ok", id |-> id]
Raised == [state |-> "raised", id |-> NoFolderId]

\* A caller starts: upsert_folder (EmailRepository), or the poller's
\* get_folder_id, then upsert_folder when it found none.
FolderCall(c, kind, account_id, name) ==
    /\ fcall[c].pc = "idle"
    /\ fcall' = [fcall EXCEPT ![c] = [pc |-> IF kind = "poller" THEN "get" ELSE "select",
                                       kind |-> kind, account_id |-> account_id,
                                       name |-> name]]
    /\ fret' = [fret EXCEPT ![c] = NoReturn]
    /\ UNCHANGED <<folders, nextFolderId, schemaUnique>>
    /\ FolderFrame

\* folder_id = db_manager.get_folder_id(account_id, "INBOX"); if not folder_id: ...
PollerGetFolderId(c) ==
    /\ fcall[c].pc = "get"
    /\ LET fid == get_folder_id(folders, fcall[c].account_id, fcall[c].name)
       IN IF fid # NoFolderId
          THEN /\ fret' = [fret EXCEPT ![c] = Returned(fid)]
               /\ fcall' = [fcall EXCEPT ![c].pc = "idle"]
          ELSE /\ fcall' = [fcall EXCEPT ![c].pc = "select"]
               /\ UNCHANGED fret
    /\ UNCHANGED <<folders, nextFolderId, schemaUnique>>
    /\ FolderFrame

\* upsert_folder: res = fetch_one("SELECT id ..."); if res: return res['id']
UpsertFolderSelect(c) ==
    /\ fcall[c].pc = "select"
    /\ LET fid == get_folder_id(folders, fcall[c].account_id, fcall[c].name)
       IN IF fid # NoFolderId
          THEN /\ fret' = [fret EXCEPT ![c] = Returned(fid)]
               /\ fcall' = [fcall EXCEPT ![c].pc = "idle"]
          ELSE /\ fcall' = [fcall EXCEPT ![c].pc = "insert"]
               /\ UNCHANGED fret
    /\ UNCHANGED <<folders, nextFolderId, schemaUnique>>
    /\ FolderFrame

\* upsert_folder: return execute_commit("INSERT INTO folders ..."): the new
\* row's id; with a unique index a second row is refused and execute_commit
\* re-raises.
UpsertFolderInsert(c) ==
    /\ fcall[c].pc = "insert"
    /\ IF schemaUnique /\ FolderRows(fcall[c].account_id, fcall[c].name) # {}
       THEN /\ fret' = [fret EXCEPT ![c] = Raised]
            /\ UNCHANGED <<folders, nextFolderId>>
       ELSE /\ folders' = folders \cup {[id |-> nextFolderId,
                                         account_id |-> fcall[c].account_id,
                                         name |-> fcall[c].name]}
            /\ nextFolderId' = nextFolderId + 1
            /\ fret' = [fret EXCEPT ![c] = Returned(nextFolderId)]
    /\ fcall' = [fcall EXCEPT ![c].pc = "idle"]
    /\ UNCHANGED schemaUnique
    /\ FolderFrame

InitFolders ==
    /\ CacheInit /\ ConnInit /\ ListInit /\ PollInit
    /\ ThreadIdle /\ RulesIdle /\ SessIdle /\ StoreIdle /\ LateIdle
    /\ schemaUnique \in BOOLEAN
    /\ FolderCallersIdle

NextFolders ==
    \/ \E c \in Threads, kind \in {"upsert", "poller"}, name \in FolderNames :
           FolderCall(c, kind, RepoAccount, name)
    \/ \E c \in Threads : PollerGetFolderId(c)
    \/ \E c \in Threads : UpsertFolderSelect(c)
    \/ \E c \in Threads : UpsertFolderInsert(c)

SpecFolders == InitFolders /\ [][NextFolders]_vars

(***************************************************************************)
(* DBManager.upsert_email on the emails table kept row by row, so that two *)
(* rows with the same columns are two rows.                                *)
(***************************************************************************)
MaxStoreOps == 2   \* upsert_email calls with new arguments

StoreArgs(folder_id, uid, subject, body) ==
    [account_id |-> RepoAccount, folder_id |-> folder_id, uid |-> uid,
     subject |-> subject, body_text |-> body[1], body_html |-> body[2]]

\* folder_id is None when the caller's get_folder_id found no folder row
\* (EmailRepository.fetch_email_body).
StoreCalls ==
    {StoreArgs(folder_id, uid, subject, body) :
        folder_id \in {NoFolderId, 1}, uid \in 1..2, subject \in {SubjHello, SubjHi},
        body \in {<<NULL, NULL>>, <<"text", "">>, <<"", "">>}}

\* the set-level upsert with the arguments of a call
UpsertSet(E, a) ==
    upsert_email(E, a.account_id, a.folder_id, a.uid, a.subject, "Ann <ann>",
                 HeaderDate(1), <<>>, "a", NULL, NullText, a.body_text, a.body_html)

OnlyRow(E) == CHOOSE r \in E : TRUE

\* upsert_email on the rows: a row the statement conflicts with is updated
\* in place, otherwise a row is inserted.
upsert_email_rows(T, a) ==
    LET hits == {i \in 1..Len(T) :
                    a.folder_id # NoFolderId
                    /\ SameKey(T[i], a.account_id, a.folder_id, a.uid)}
    IN IF hits = {} THEN Append(T, OnlyRow(UpsertSet({}, a)))
       ELSE [i \in 1..Len(T) |-> IF i \in hits THEN OnlyRow(UpsertSet({T[i]}, a)) ELSE T[i]]

StoreFrame == UNCHANGED <<threadVars, ruleVars, sessVars, folderVars, lateVars, cacheVars, connVars, listVars, pollVars>>

\* upsert_email called with arguments a
StoreUpsert(a) ==
    /\ ecall.ops < MaxStoreOps
    /\ etable' = upsert_email_rows(etable, a)
    /\ ecall' = [runs |-> 1, ops |-> ecall.ops + 1, args |-> a,
                 first |-> upsert_email_rows(etable, a)]
    /\ StoreFrame

\* the same call once more
StoreRepeat ==
    /\ ecall.runs = 1
    /\ etable' = upsert_email_rows(etable, ecall.args)
    /\ ecall' = [ecall EXCEPT !.runs = 2]
    /\ StoreFrame

InitStore ==
    /\ CacheInit /\ ConnInit /\ ListInit /\ PollInit
    /\ ThreadIdle /\ RulesIdle /\ SessIdle /\ FoldersIdle /\ LateIdle
    /\ StoreIdle

NextStore ==
    \/ \E a \in StoreCalls : StoreUpsert(a)
    \/ StoreRepeat

SpecStore == InitStore /\ [][NextStore]_vars

(***************************************************************************)
(* The connection's cached selection (_selected_folder,                    *)
(* _selected_readonly) against the folder the session has selected, for    *)
(* one caller that reads, moves, logs out and reconnects.                  *)
(***************************************************************************)
SelFrame == UNCHANGED <<lockHolder, tpc, tfolder, top, lastCmd, link, sessLock, spc, sop, sseen, sres, threadVars, ruleVars, folderVars, storeVars, moreVars, cacheVars, listVars, pollVars>>

\* "if not self.client: self._connect()": the client afterwards
EnsuredClient(connects) ==
    IF client = "none" THEN (IF connects THEN "auth" ELSE "none") ELSE client

\* the folder the session has selected after that: a new session has none
EnsuredFolder(connects) ==
    IF client = "none" THEN NoFolder ELSE clientFolder

\* what an operation leaves in the log: itself, the operation before it, the
\* cached folder and the session's folder it met
SelLog(op, folder_name, sent) == [op |-> op, folder |-> folder_name, sent |-> sent, cached |-> selFolder, prev |-> selLog.op, session |-> clientFolder]

\* A read operation (fetch_threads, fetch_email_body, fetch_emails) up to and
\* including its select_folder(folder_name, readonly=True).
ReadCall(folder_name, connects, ok, kept) ==
    /\ client' = EnsuredClient(connects)
    /\ IF EnsuredClient(connects) = "none"
       THEN /\ UNCHANGED <<clientFolder, selFolder, selReadonly>>
            /\ selLog' = SelLog("read_none", folder_name, FALSE)
       ELSE IF selFolder = folder_name /\ selReadonly = "true"
       THEN /\ clientFolder' = EnsuredFolder(connects)
            /\ UNCHANGED <<selFolder, selReadonly>>
            /\ selLog' = SelLog("read", folder_name, FALSE)
       ELSE /\ clientFolder' = IF ok THEN folder_name
                               ELSE IF kept THEN EnsuredFolder(connects) ELSE NoFolder
            /\ selFolder' = IF ok THEN folder_name ELSE NoFolder
            /\ selReadonly' = IF ok THEN "true" ELSE "none"
            /\ selLog' = SelLog("read", folder_name, TRUE)
    /\ SelFrame

\* IMAPClient.move_emails: _selected_folder = None, then the MOVE
MoveCall(connects) ==
    /\ client' = EnsuredClient(connects)
    /\ IF EnsuredClient(connects) = "none"
       THEN /\ UNCHANGED <<clientFolder, selFolder, selReadonly>>
            /\ selLog' = SelLog("move_none", NoFolder, FALSE)
       ELSE /\ clientFolder' = EnsuredFolder(connects)
            /\ selFolder' = NoFolder
            /\ UNCHANGED selReadonly
            /\ selLog' = SelLog("move", NoFolder, FALSE)
    /\ SelFrame

\* IMAPClient.logout: the session ends, client = None
LogoutCall ==
    /\ client # "none"
    /\ client' = "none"
    /\ clientFolder' = NoFolder
    /\ UNCHANGED <<selFolder, selReadonly>>
    /\ selLog' = SelLog("logout", NoFolder, FALSE)
    /\ SelFrame

InitSelect ==
    /\ CacheInit /\ ConnInit /\ ListInit /\ PollInit
    /\ ThreadIdle /\ RulesIdle /\ FoldersIdle /\ StoreIdle /\ LateIdle
    /\ SessInit

NextSelect ==
    \/ \E folder_name \in FolderNames, connects \in BOOLEAN, ok \in BOOLEAN, kept \in BOOLEAN :
           ReadCall(folder_name, connects, ok, kept)
    \/ \E connects \in BOOLEAN : MoveCall(connects)
    \/ LogoutCall

SpecSelect == InitSelect /\ [][NextSelect]_vars

Fetched == tfetch.live # "none"

(***************************************************************************)
(* The list acting on a message it shows while a load worker uses the same *)
(* connection: the UI thread calls move_emails or add_flags for a message  *)
(* of the folder on display, the worker runs fetch_threads for the folder  *)
(* the user selected.                                                      *)
(***************************************************************************)
UiThread == 1
LoadWorker == 2
MutateOps == {"move_emails", "add_flags"}

MutateFrame == UNCHANGED <<cacheVars, listVars, pollVars, threadVars, ruleVars, sessVars, folderVars, storeVars, selLog, toffline>>

\* finish_load_emails after the worker's fetch_threads returned: the list
\* shows the folder's threads when the call brought some
LoadDone(threads) ==
    /\ top[LoadWorker] = "fetch_threads"
    /\ ConnRelease(LoadWorker)
    /\ threads => lastCmd.thread = LoadWorker /\ lastCmd.answered
    /\ shown' = IF threads THEN tfolder[LoadWorker] ELSE shown
    /\ MutateFrame

\* delete_selected / mark-read on a message of the list: the repository call
\* up to "with self._lock" of IMAPClient.move_emails / add_flags
MutateCall(op) ==
    /\ shown # NoFolder
    /\ ConnCall(UiThread, op, shown)
    /\ ConnFrame

\* with self._lock: of move_emails / add_flags; no select_folder follows
MutateAcquire ==
    /\ tpc[UiThread] = "lock"
    /\ lockHolder = 0
    /\ lockHolder' = UiThread
    /\ tpc' = [tpc EXCEPT ![UiThread] = "mutate"]
    /\ UNCHANGED <<clientFolder, selFolder, selReadonly, tfolder, top, lastCmd>>
    /\ ConnFrame

\* self.client.move(uids, target) / self.client.add_flags(uids, flags): the
\* command acts on the folder the session has selected
MutateCommand(ok) ==
    /\ tpc[UiThread] = "mutate"
    /\ clientFolder = NoFolder => ~ok
    /\ lastCmd' = [cmd |-> IF top[UiThread] = "move_emails" THEN "MOVE" ELSE "STORE",
                   forFolder |-> tfolder[UiThread], onFolder |-> clientFolder,
                   thread |-> UiThread, locked |-> lockHolder, answered |-> ok]
    /\ selFolder' = IF top[UiThread] = "move_emails" THEN NoFolder ELSE selFolder
    /\ tpc' = [tpc EXCEPT ![UiThread] = "unlock"]
    /\ UNCHANGED <<clientFolder, selReadonly, lockHolder, tfolder, top>>
    /\ ConnFrame

InitMutate == Init

NextMutate ==
    \/ \E f \in FolderNames : ConnCall(LoadWorker, "fetch_threads", f) /\ ConnFrame
    \/ ConnAcquire(LoadWorker) /\ ConnFrame
    \/ \E ok \in BOOLEAN, kept \in BOOLEAN : ConnSelect(LoadWorker, ok, kept) /\ ConnFrame
    \/ \E ok \in BOOLEAN, empty \in BOOLEAN : ConnCommand(LoadWorker, ok, empty) /\ ConnFrame
    \/ \E threads \in BOOLEAN : LoadDone(threads)
    \/ \E op \in MutateOps : MutateCall(op)
    \/ MutateAcquire
    \/ \E ok \in BOOLEAN : MutateCommand(ok)
    \/ ConnRelease(UiThread) /\ ConnFrame

SpecMutate == InitMutate /\ [][NextMutate]_vars

(***************************************************************************)
(* The offline view: a folder whose messages may also reference one        *)
(* another in a circle, fetched live once (any tier) and rebuilt from the  *)
(* rows the cache holds of it, written either by the poller as the         *)
(* messages arrived or by the repository from the live forest.             *)
(***************************************************************************)
\* Header links: none; a reply to the message that replies to it (1 <-> 2);
\* the message's own id; a References chain.
CircleLinks(u) ==
    CASE u = 1 -> {NoLink, Link("b", <<>>), Link("a", <<"a">>)}
      [] u = 2 -> {NoLink, Link("a", <<>>)}
      [] u = 3 -> {NoLink, Link("b", <<"a", "b">>)}
      [] OTHER -> {NoLink}

OfflineSizes == {2, MaxMsgs - 1}

OfflineMailboxes(n) ==
    {{ThreadMsg(u, d[u], l[u], sj[u]) : u \in 1..n} :
        d \in Permutations(1..n),
        l \in {f \in [1..n -> UNION {CircleLinks(u) : u \in 1..n}] :
                  \A u \in 1..n : f[u] \in CircleLinks(u)},
        sj \in {f \in [1..n -> AllSubjects] : \A u \in 1..n : f[u] \in SubjectChoices(u)}}

OfflineFrame == UNCHANGED <<mailbox, tfetch, twalk, selLog, shown, cacheVars, connVars, listVars, pollVars, ruleVars, sessVars, folderVars, storeVars>>

RECURSIVE PollerRows(_, _)
\* the cache after the poller cached the messages uids of the folder
PollerRows(c, uids) ==
    IF uids = <<>> THEN c
    ELSE PollerRows(poller_cache_message(c.folders, c.next, c.emails, RepoAccount,
                                         MsgOf(mailbox, Head(uids))),
                    Tail(uids))

\* The rows the cache holds of the folder, by who wrote them.
CachedRows(source) ==
    IF source = "poller"
    THEN PollerRows([folders |-> {}, next |-> 1, emails |-> {}],
                    AscendingUids(UidsOf(mailbox)))
    ELSE LET uf == upsert_folder({}, 1, RepoAccount, "INBOX")
         IN [folders |-> uf.folders, next |-> uf.next,
             emails |-> cache_threads({}, uf.id, tfetch.forest)]

\* The first fetch_threads call of the list on the folder.
OfflineLive(args) ==
    /\ tfetch = NoFetch
    /\ FetchThreadsCall(args, imap_fetch_threads(args.live, mailbox, args.answer,
                                                 args.gmail, args.limit, args.offset))

\* EmailRepository.fetch_threads with no connection: the whole folder rebuilt
\* from its cached rows.
OfflineFetch(source) ==
    /\ ~toffline.done
    /\ source = "list" => Fetched
    /\ LET c == CachedRows(source)
       IN toffline' = [done |-> TRUE, source |-> source, rows |-> c.emails,
                       forest |-> fetch_threads_from_db(
                                      c.emails, get_folder_id(c.folders, RepoAccount, "INBOX"),
                                      DefaultLimit, 0)]
    /\ OfflineFrame

InitOffline ==
    /\ CacheInit /\ ConnInit /\ ListInit /\ PollInit
    /\ \E n \in OfflineSizes : mailbox \in OfflineMailboxes(n)
    /\ tfetch = NoFetch
    /\ twalk = NoWalk
    /\ RulesIdle /\ SessIdle /\ FoldersIdle /\ StoreIdle /\ LateIdle

NextOffline ==
    \/ \E args \in NextCalls : OfflineLive(args)
    \/ \E source \in {"poller", "list"} : OfflineFetch(source)

SpecOffline == InitOffline /\ [][NextOffline]_vars


\* the roots the tier of the last call handed to the subject merge
MergedRoots == MergeInput(tfetch.live, mailbox, tfetch.answer, tfetch.gmail)

RECURSIVE DeepNewest(_)
\* the newest date among a node and its descendants at any depth
DeepNewest(node) ==
    MaxOf({node.date} \cup {DeepNewest(node.children[i]) : i \in 1..Len(node.children)})

\* C11 as stated: the roots of the returned forest are in descending order of
\* the newest date among the root and all its descendants, at any depth.
C11_RootsByNewestDescendant ==
    Fetched =>
        \A i, j \in 1..Len(tfetch.forest) :
            i < j => DeepNewest(tfetch.forest[i]) >= DeepNewest(tfetch.forest[j])

RECURSIVE C12_Concat(_)
C12_Concat(pages) == IF pages = <<>> THEN <<>> ELSE Head(pages) \o C12_Concat(Tail(pages))

RECURSIVE C13_ParentIn(_, _, _)
\* the uid of the node a forest holds u under: parent for a root, -1 if absent
C13_ParentIn(nodes, parent, u) ==
    IF nodes = <<>> THEN -1
    ELSE IF Head(nodes).uid = u THEN parent
    ELSE LET below == C13_ParentIn(Head(nodes).children, Head(nodes).uid, u)
         IN IF below # -1 THEN below ELSE C13_ParentIn(Tail(nodes), parent, u)

\* the fetched message with that message-id, other than m itself (0: none)
C13_Known(m, id) ==
    LET hit == {x.uid : x \in {y \in mailbox : y.msg_id = id /\ y.uid # m.uid}}
    IN IF id = "" \/ hit = {} THEN 0 ELSE CHOOSE x \in hit : TRUE

\* the parent the claim names: the last entry of References that is a fetched
\* message, failing that In-Reply-To, 0 when there is none
C13_ExpectedParent(m) ==
    LET hits == {i \in 1..Len(m.references) : C13_Known(m, m.references[i]) # 0}
    IN IF hits # {} THEN C13_Known(m, m.references[MaxOf(hits)])
       ELSE C13_Known(m, m.in_reply_to)

C13_Tier2 == tfetch.live = "fallback" /\ ~tfetch.gmail

C13_ExampleMailbox ==
    /\ Cardinality(mailbox) = 2
    /\ \E m \in mailbox : m.uid = 1 /\ m.subject = SubjHello /\ m.in_reply_to = ""
                          /\ m.references = <<>>
    /\ \E m \in mailbox : m.uid = 2 /\ m.subject = SubjReHello /\ m.in_reply_to = "a"
                          /\ m.references = <<>>

\* C13: when THREAD is rejected and the host is not Gmail, the linking pass
\* puts every message under the fetched message named by the last known
\* entry of its References, failing that by its In-Reply-To, unless that is
\* the message itself; the others are roots.  Messages {1, "Hello"} and
\* {2, in_reply_to 1, "Re: Hello"} come back as one root 1 with one child 2.
C13_HeaderLinking ==
    C13_Tier2 =>
        /\ \A m \in mailbox : C13_ParentIn(MergedRoots, 0, m.uid) = C13_ExpectedParent(m)
        /\ C13_ExampleMailbox =>
              /\ Len(tfetch.forest) = 1
              /\ tfetch.forest[1].uid = 1
              /\ Len(tfetch.forest[1].children) = 1
              /\ tfetch.forest[1].children[1].uid = 2
              /\ tfetch.forest[1].children[1].children = <<>>

\* C13 witness: message 3 names an unknown id last in References and message
\* 1 in In-Reply-To, and is linked under message 2, which References names;
\* message 2 is linked by In-Reply-To alone; message 1 names itself and is a
\* root.
C13_Witness ==
    /\ C13_Tier2
    /\ \E m \in mailbox : /\ m.uid = 3 /\ m.references = <<"b", "x">> /\ m.in_reply_to = "a"
                          /\ C13_ParentIn(MergedRoots, 0, 3) = 2
    /\ \E m \in mailbox : /\ m.uid = 2 /\ m.references = <<>> /\ m.in_reply_to = "a"
                          /\ C13_ParentIn(MergedRoots, 0, 2) = 1
    /\ \E m \in mailbox : /\ m.uid = 1 /\ m.references = <<"a">>
                          /\ C13_ParentIn(MergedRoots, 0, 1) = 0

\* The normalized subject of the subjects of the universe, by the claim's
\* words: prefixes Re:/Fwd:/Fw: stripped, lowercased.
C14_Normalized(subject) ==
    CASE subject \in {SubjHello, SubjReHello, SubjREhello, SubjFwdHello} -> "hello"
      [] subject = SubjHi -> "hi"
      [] OTHER -> ""

C14_Mergeable(subject) == C14_Normalized(subject) = "hello"

C14_ChildUids(node) == {node.children[i].uid : i \in 1..Len(node.children)}

C14_Group(r) ==
    {i \in 1..Len(MergedRoots) :
        /\ C14_Mergeable(MergedRoots[i].subject)
        /\ C14_Normalized(MergedRoots[i].subject) = C14_Normalized(r.subject)}

\* C14: the subject merge puts all roots of one normalized subject (not
\* empty, longer than 3 characters) into one thread: its root is the oldest of
\* them, the others and their former children are its direct children; a root
\* whose normalized subject is unique, empty or short is left as it was.
C14_SubjectMerge ==
    Fetched =>
        \A i \in 1..Len(MergedRoots) :
            LET r == MergedRoots[i]
                group == C14_Group(r)
            IN IF ~C14_Mergeable(r.subject) \/ Cardinality(group) = 1
               THEN \E k \in 1..Len(tfetch.forest) : tfetch.forest[k] = PopInternal(r)
               ELSE LET oldest == CHOOSE g \in group :
                                     \A h \in group : MergedRoots[g].date <= MergedRoots[h].date
                        others == group \ {oldest}
                    IN \E k \in 1..Len(tfetch.forest) :
                          LET root == tfetch.forest[k]
                          IN /\ root.uid = MergedRoots[oldest].uid
                             /\ C14_ChildUids(root) =
                                   C14_ChildUids(MergedRoots[oldest])
                                   \cup {MergedRoots[h].uid : h \in others}
                                   \cup UNION {C14_ChildUids(MergedRoots[h]) : h \in others}
                             /\ \A h \in others :
                                   /\ \A n \in 1..Len(tfetch.forest) :
                                         tfetch.forest[n].uid # MergedRoots[h].uid
                                   /\ \E c \in 1..Len(root.children) :
                                         /\ root.children[c].uid = MergedRoots[h].uid
                                         /\ root.children[c].children = <<>>

\* C14 witness: roots "Hello" and "RE: hello" with no header link between
\* them, the second one older and with a child of its own, merged under it.
C14_Witness ==
    /\ C13_Tier2
    /\ \E i, j \in 1..Len(MergedRoots) :
          /\ MergedRoots[i].uid = 1 /\ MergedRoots[i].subject = SubjHello
          /\ MergedRoots[j].uid = 3 /\ MergedRoots[j].date < MergedRoots[i].date
          /\ C14_ChildUids(MergedRoots[j]) = {4}
          /\ \E k \in 1..Len(tfetch.forest) :
                /\ tfetch.forest[k].uid = 3
                /\ {1, 4} \subseteq C14_ChildUids(tfetch.forest[k])

\* The alternatives of the condition values of the universe, by the claim's
\* words: the pieces between commas, blank pieces left out.
C15_Alternatives(value) ==
    CASE value = ValNewsletter -> {ValNewsletter}
      [] value = ValBossNews -> {<<"B", "o", "s", "s">>, <<"N", "E", "W", "S">>}
      [] value = ValMe -> {ValMe}
      [] value = ValExample -> {ValExample}
      [] value = ValReport -> {<<"r", "e", "p", "o", "r", "t">>}
      [] value = ValSale -> {ValSale}
      [] OTHER -> {}

\* alt is a substring of text, letter case ignored
C15_CISubstring(alt, text) ==
    \E i \in 0..(Len(text) - Len(alt)) :
        \A k \in 1..Len(alt) : LowerOf(text[i + k]) = LowerOf(alt[k])

C15_FieldMatches(cond, email) ==
    \E alt \in C15_Alternatives(cond.value) :
        \/ cond.field = "sender" /\ C15_CISubstring(alt, email.sender)
        \/ cond.field = "subject" /\ C15_CISubstring(alt, email.subject)
        \/ cond.field = "recipient" /\ (C15_CISubstring(alt, email.to) \/ C15_CISubstring(alt, email.cc))

C15_Matching(email, account_id) ==
    {i \in 1..Len(ruleCall.rows) :
        /\ ruleCall.rows[i].account_id \in {account_id, NullAccount}
        /\ \A cond \in ruleCall.rows[i].conditions : C15_FieldMatches(cond, email)}

C15_Email == CHOOSE email \in RuleMails : email.uid = ruleCall.email

\* C15: apply_rules returns the actions of the first rule in stored order of
\* which every condition field matches (one of the comma-separated
\* alternatives is a substring of the message's field, letter case ignored;
\* recipient is looked for in to and cc), and None when no rule matches.  A
\* rule {sender: "newsletter@"} matches sender "NewsLetter@Example.com" and
\* not "boss@example.com".
C15_FirstMatchingRule ==
    /\ ruleCall.site = "api" =>
          LET hits == C15_Matching(C15_Email, ruleCall.account_id)
          IN IF hits = {} THEN ruleCall.result = "None"
             ELSE ruleCall.result = ruleCall.rows[CHOOSE i \in hits : \A j \in hits : i <= j].actions
    /\ FieldMatches(Cond("sender", ValNewsletter), MailNews)
    /\ ~FieldMatches(Cond("sender", ValNewsletter), MailBoss)

\* C15 witness: two rules that both match the message, the call returns the
\* first one's actions; the first is matched through an upper-case
\* alternative after a blank-padded comma.
C15_Witness ==
    /\ ruleCall.site = "api" /\ ruleCall.email = MailBoss.uid
    /\ Len(ruleCall.rows) = 2
    /\ ruleCall.rows[1].conditions = {Cond("sender", ValBossNews)}
    /\ ruleCall.rows[2].conditions = {Cond("sender", ValExample), Cond("subject", ValReport)}
    /\ C15_Matching(MailBoss, ruleCall.account_id) = {1, 2}
    /\ ruleCall.result = RuleFolders[1]

\* C16 as stated: a rule stored for account A is applied to messages of
\* account A only; the rule pass of the list load is included.
C16_RulesScopedToAccount ==
    ruleCall.rule # NoRule =>
        ruleCall.rule.account_id \in {NullAccount, ruleCall.account}

\* C17 as stated: an operation that begins after a transport error broke the
\* connection reconnects before it issues a command.
C17_ReconnectAfterTransportError ==
    \A t \in Threads : spc[t] = "cmd" /\ sseen[t].broken => sseen[t].reconnect

\* C18 as stated: at most one thread at a time is in a command sequence of
\* the session (the login of a reconnect included), and it holds the lock.
C18_OneCommandSequence ==
    /\ Cardinality({t \in Threads : spc[t] \in {"cmd", "login"}}) <= 1
    /\ \A t \in Threads : spc[t] \in {"cmd", "login"} => sessLock = t

\* C19 as stated: whatever the interleaving of the callers' statements, the
\* folders table holds at most one row for an (account_id, name), and a
\* caller that has returned holds the id of that row.
C19_OneRowPerFolder ==
    /\ \A account_id \in AccountIds, name \in FolderNames :
          Cardinality(FolderRows(account_id, name)) <= 1
    /\ \A c \in Threads :
          fcall[c].pc = "idle" /\ fcall[c].kind # "none" =>
              /\ fret[c].state = "ok"
              /\ FolderRows(fcall[c].account_id, fcall[c].name)
                    = {[id |-> fret[c].id, account_id |-> fcall[c].account_id,
                        name |-> fcall[c].name]}

\* C20 as stated: after upsert_email has run twice with the same arguments
\* the table holds exactly one row for the call's (account_id, folder_id, uid)
\* and is as the first run left it.
C20_UpsertTwiceOneRow ==
    ecall.runs = 2 =>
        /\ Cardinality({i \in 1..Len(etable) :
                           SameKey(etable[i], ecall.args.account_id,
                                   ecall.args.folder_id, ecall.args.uid)}) = 1
        /\ etable = ecall.first

\* C21 as stated: a cached selection (F, mode) with F not null means the
\* live session has F selected in that mode; a read of the cached folder and
\* mode sends no SELECT; the read after a move sends one.
C21_CachedSelectionIsLive ==
    /\ client = "auth" /\ selFolder # NoFolder =>
          clientFolder = selFolder /\ selReadonly = "true"
    /\ selLog.op = "read" /\ selLog.cached = selLog.folder /\ selLog.cached # NoFolder =>
          ~selLog.sent
    /\ selLog.op = "read" /\ selLog.prev = "move" => selLog.sent

RECURSIVE ShapeOf(_)
\* a forest reduced to its uids: which message is where
ShapeOf(forest) ==
    [i \in 1..Len(forest) |-> [uid |-> forest[i].uid,
                               children |-> ShapeOf(forest[i].children)]]

\* C22 as stated: the forest _fetch_threads_from_db builds of the cached rows
\* of a folder is the forest the live header-based algorithm (Tier 2 linking,
\* Tier 3 subject merge, newest-date ordering) builds of the same messages,
\* and a row whose parent is not among the rows is a root.
C22_OfflineEqualsLive ==
    toffline.done =>
        /\ ShapeOf(toffline.forest) = ShapeOf(Tier2Threads(mailbox, DefaultLimit, 0))
        /\ \A r \in toffline.rows :
              (\A p \in toffline.rows : ~Truthy(p.message_id)
                                         \/ p.message_id # r.in_reply_to)
                  => \E i \in 1..Len(toffline.forest) : toffline.forest[i].uid = r.uid

RECURSIVE TimesIn(_, _)
\* how often a uid occurs in a forest, at any depth
TimesIn(forest, u) ==
    IF forest = <<>> THEN 0
    ELSE (IF Head(forest).uid = u THEN 1 ELSE 0)
         + TimesIn(Head(forest).children, u) + TimesIn(Tail(forest), u)

\* C23 as stated: every fetched message occurs exactly once in the complete
\* forest the threading engine builds, as a root or below one, also when
\* messages reference each other in a circle or reference themselves.
C23_EveryMessageOnce ==
    Fetched => \A m \in mailbox : TimesIn(tfetch.forest, m.uid) = 1

\* C24 as stated: a successful move_emails(uids, target) changes the
\* folder_id only of the rows of those uids in the folder the messages were
\* moved from (one folder, whichever it was); the rows of any other folder
\* under the same uids keep their folder_id.
C24_MoveChangesSourceRowsOnly ==
    lastOp.op = "move" /\ lastOp.result = "true" =>
        /\ \A r \in preEmails \ emails :
              r.account_id = RepoAccount /\ r.uid \in SeqToSet(lastOp.uids)
        /\ \A r, q \in preEmails \ emails : r.folder_id = q.folder_id

\* C25 as stated: a successful fetch_email_body(folder, uid) leaves the cached
\* flags, in-reply-to and references of that message as they were.
C25_BodyFetchKeepsFlagsAndLinks ==
    lastOp.op = "fetch_email_body" /\ lastOp.result = "live" =>
        \A r \in preEmails :
            SameKey(r, RepoAccount, get_folder_id(preFolders, RepoAccount, lastOp.folder),
                    lastOp.uids[1])
                => \E q \in emails :
                       /\ SameKey(q, r.account_id, r.folder_id, r.uid)
                       /\ q.flags = r.flags
                       /\ q.in_reply_to = r.in_reply_to
                       /\ q.references_list = r.references_list

\* C26 as stated: a move or flag change the UI issues for a message it
\* listed from folder F is executed on the server while F is the folder the
\* session has selected, under every interleaving with a load worker that
\* selects another folder on the same connection.
C26_MutationOnListedFolder ==
    lastCmd.cmd \in {"MOVE", "STORE"} /\ lastCmd.answered =>
        lastCmd.onFolder = lastCmd.forFolder

\* C27 as stated: the poller notifies only of messages that arrived after it
\* started; a message the INBOX held at startup is never notified, also when
\* the initial snapshot of the account failed.
C27_OnlyNewMailNotified ==
    \A n \in notified : n.uid > startInbox[n.acc]

\* C28 as stated: when the poll of an account fails at any step of a cycle
\* (search, envelope fetch, cache write or notification raises), the
\* account's watermark after the cycle is the one it had before it.
C28_FailedPollKeepsWatermark ==
    CycleDone =>
        \A a \in AccountIds :
            cycleLog[a].outcome \in {"search_error", "fetch_error", "cache_error",
                                     "sound_error"}
                => cycleLog[a].mark = cycleLog[a].start

\* C29: at most one notification per (account, uid) over a run; every uid
\* notified in a cycle is above the watermark the account had before that
\* cycle; and a watermark never decreases.
C29_NotifiedOnce ==
    /\ [](/\ \A n, q \in notified : n.acc = q.acc /\ n.uid = q.uid => n.cycle = q.cycle
          /\ \A n \in notified :
                n.cycle = cycle => n.uid > LastUidGet(cycleLog[n.acc].start))
    /\ [][\A a \in AccountIds :
             LastUidGet(last_uids'[a]) >= LastUidGet(last_uids[a])]_vars

\* C29 witness: an account notified in two cycles, of different messages.
C29_Witness ==
    \E n, q \in notified : n.acc = q.acc /\ n.cycle = 1 /\ q.cycle = 2

\* C30 as stated: fetch_threads returns threads rebuilt from the cache only
\* when the live fetch failed; when the live fetch succeeds with an empty
\* forest (empty folder, offset past the last root) it returns an empty list.
C30_CacheOnlyAfterFailure ==
    lastOp.op = "fetch_threads" /\ lastOp.remote \in {"thread", "fallback", "fallback_flat"}
        => lastOp.result = "live" \/ lastOp.forest = <<>>

====
